---- MODULE Spec2Model ----
(***************************************************************************)
(* Model of the structural analysis core of pr-reviewer:                   *)
(*   - the reverse-dependency resolver of prepare_context_from_imports.py  *)
(*     (find_reverse_dependencies, recursive_reverse_dependencies);        *)
(*   - the two-pass relation extraction of graph_parallel.py               *)
(*     (regex_parse_java, build_repo_graph, ALL_DEFINED_METHODS).          *)
(*   - the stereotype role classification of regex_parse_java;            *)
(*   - the balanced-block extractors (extract_full_type,                   *)
(*     extract_full_class, extract_full_method);                           *)
(*   - the context builders (prepare_context_multi, prepare_context).      *)
(*   - regex_parse_java statement by statement, as graph.py and           *)
(*     graph_parallel.py write it;                                         *)
(*   - find_bean_configurations.                                           *)
(***************************************************************************)
EXTENDS Integers, Sequences, FiniteSets, TLC

(***************************************************************************)
(* Bounds of the model.                                                    *)
(***************************************************************************)
\* number of .java files under repo_path
NFiles == 4
\* largest --depth tried (the smallest is -1)
MaxDepth == 3
\* largest --reverse-limit tried (the smallest is -1)
MaxLimit == 1

\* number of .java files build_repo_graph can find under a repo_path
NSources == 3
\* number of build_repo_graph calls followed in one process
MaxRuns == 2

\* longest text buffer (in tokens) handed to the balanced-block extractors
MaxBuf == 6

\* largest number of annotations in the text before a type declaration
MaxAnnos == 2

\* number of repository files the context builder can find for a target
NCtxFiles == 3
\* largest number of target files handed to prepare_context_multi
MaxTargets == 2

\* files under repo_path that find_bean_configurations walks
NBeanFiles == 2

\* a file without a package statement / without a type declaration
NoPkg == <<>>
NoType == ""

Files == 1..NFiles

(***************************************************************************)
(* Generic helpers on Python lists and sets.                               *)
(***************************************************************************)
Range(s) == {s[k] : k \in 1..Len(s)}

NoDup(s) == \A a, b \in 1..Len(s) : a # b => s[a] # s[b]

\* list(S) for a Python set S: every duplicate-free enumeration of S (the
\* iteration order of a set is not specified).
ListsOf(S) == {s \in [1..Cardinality(S) -> S] : Range(s) = S}

Min(a, b) == IF a < b THEN a ELSE b
Max(a, b) == IF a > b THEN a ELSE b

\* s[:n] of Python, n an integer (a negative n counts from the end).
Take(s, n) ==
    IF n >= 0 THEN SubSeq(s, 1, Min(n, Len(s)))
    ELSE SubSeq(s, 1, Max(Len(s) + n, 0))

(***************************************************************************)
(* File names and the test-name convention.                                *)
(***************************************************************************)
UpperChars == <<"A","B","C","D","E","F","G","H","I","J","K","L","M",
                "N","O","P","Q","R","S","T","U","V","W","X","Y","Z">>
LowerChars == <<"a","b","c","d","e","f","g","h","i","j","k","l","m",
                "n","o","p","q","r","s","t","u","v","w","x","y","z">>

\* one character under (?i): its lower-case form
Lower(c) ==
    IF \E k \in 1..Len(UpperChars) : UpperChars[k] = c
    THEN LowerChars[CHOOSE k \in 1..Len(UpperChars) : UpperChars[k] = c]
    ELSE c

\* str.endswith
EndsWith(s, suf) ==
    /\ Len(s) >= Len(suf)
    /\ SubSeq(s, Len(s) - Len(suf) + 1, Len(s)) = suf

JavaSuffix == <<".","j","a","v","a">>
TestSuffix == <<"t","e","s","t",".","j","a","v","a">>

\* f.endswith(".java")
IsJavaFile(name) == EndsWith(name, JavaSuffix)

\* re.search(r'(?i)test\.java$', f)
IsTestNameNoFold(name) == EndsWith(name, TestSuffix)
IsTestName(name) == EndsWith([k \in 1..Len(name) |-> Lower(name[k])], TestSuffix)

(***************************************************************************)
(* The corpus: the files os.walk(repo_path) yields.  Each file has a name, *)
(* an optional package statement and an optional first type declaration;   *)
(* the types its text references are chosen in Init.                       *)
(***************************************************************************)
FileName(i) ==
    CASE i = 1 -> <<"A",".","j","a","v","a">>
      [] i = 2 -> <<"B",".","j","a","v","a">>
      [] i = 3 -> <<"C","T","e","s","t",".","j","a","v","a">>
      [] i = 4 -> <<"D",".","j","a","v","a">>
      [] i = 5 -> <<"L","A","T","E","S","T",".","j","a","v","a">>
      [] OTHER -> <<"n","o","t","e","s",".","t","x","t">>

\* PACKAGE_RE.search(code): the package as its dotted segments, or NoPkg
FilePkg(i) ==
    CASE i = 1 -> <<"p">>
      [] i = 2 -> <<"p">>
      [] i = 3 -> <<"q">>
      [] i = 4 -> <<"q","r">>
      [] OTHER -> NoPkg

\* TYPE_RE.search(code).group(2): the simple name of the first type, or NoType
FileType(i) ==
    CASE i = 1 -> "A"
      [] i = 2 -> "B"
      [] i = 3 -> "CTest"
      [] i = 4 -> "D"
      [] i = 5 -> "Latest"
      [] OTHER -> NoType

\* f"{pkg.group(1)}.{cls.group(2)}" as dotted segments
Fqn(pkg, cls) == pkg \o <<cls>>

\* `if pkg and cls`
HasFqn(i) == FilePkg(i) # NoPkg /\ FileType(i) # NoType
FileFqn(i) == Fqn(FilePkg(i), FileType(i))

\* target_fqn.split(".")[-1] and ".".join(target_fqn.split(".")[:-1])
BaseName(fqn) == fqn[Len(fqn)]
PackageName(fqn) == SubSeq(fqn, 1, Len(fqn) - 1)

TypeFqns == {FileFqn(i) : i \in {j \in Files : HasFqn(j)}}

\* The signal through which file i mentions the types it references.
SignalOf(i) ==
    CASE i = 1 -> "import"
      [] i = 2 -> "implements"
      [] i = 3 -> "new"
      [] i = 4 -> "decl"
      [] OTHER -> "generic"

\* the patterns of combined_re that mention only the simple name
BaseSignals == {"implements", "extends", "new", "autowired", "inject",
                "qualifier", "generic", "decl", "static"}

VARIABLES
    refs,       \* refs[i]: the FQNs of the types the text of file i references
    args,       \* the arguments of the top-level recursive_reverse_dependencies call
    stack,      \* the call stack of recursive_reverse_dependencies, innermost last
    visited,    \* the visited set shared by the whole recursion (None before it exists)
    ret,        \* the list returned by the call that returned last
    retRaw,     \* the `results` list of that call before list(set(results))
    retVia,     \* the return statement that call left through
    rpc,        \* "running" while the top-level call is active, then "done"
    findCalls,  \* findCalls[x]: how often find_reverse_dependencies ran for x
    lastFind    \* target and result of the last find_reverse_dependencies call

VARIABLES
    ALL_DEFINED_METHODS, \* the module-level set of graph_parallel.py
    runs,           \* build_repo_graph calls started so far in this process
    phase,          \* "idle", "pass1", "pass2", "done" or "aborted"
    java_files,     \* the .java files of the repo_path being scanned
    p1,             \* p1[k]: where the Pass-1 task of file k stands
    p2,             \* p2[k]: where the Pass-2 task of file k stands
    p2rels,         \* p2rels[k]: the relations the Pass-2 worker of k holds
    all_relations,  \* the list build_repo_graph accumulates and returns
    built,          \* the names this call's Pass 1 has put in the index
    p1Index         \* ALL_DEFINED_METHODS as it was when Pass 1 ended

graphVars == <<ALL_DEFINED_METHODS, runs, phase, java_files, p1, p2, p2rels,
               all_relations, built, p1Index>>

rrdVars == <<refs, args, stack, visited, ret, retRaw, retVia, rpc,
            findCalls, lastFind>>

VARIABLES
    code,       \* the buffer handed to the extractor, a sequence of tokens
    xfn,        \* "extract_full_type", "extract_full_class" or "extract_full_method"
    xpc,        \* "idle", "call", "scan" or "returned"
    xstart,     \* match.start(), as a token position
    xi,         \* the loop variable i
    xdepth,     \* the depth counter
    xret,       \* the text returned
    xspan       \* where xret lies in code: [isNone, lo, hi]

extVars == <<code, xfn, xpc, xstart, xi, xdepth, xret, xspan>>

VARIABLES
    cm_start,   \* cm.start() of the CLASS_RE match, a character offset
    annos_text, \* the annotations before the type keyword: [name, at], in text order
    collect_methods_only, \* the argument of regex_parse_java
    role_of_cm, \* the local `role` of regex_parse_java for this match
    rolepc,     \* "idle", "matched", "classified" or "declared"
    declared    \* the declares relations appended for this declaration

roleVars == <<cm_start, annos_text, collect_methods_only, role_of_cm, rolepc,
              declared>>

VARIABLES
    ctx_fn,        \* "prepare_context" or "prepare_context_multi"
    target_files,  \* the targets: [exists, has_pkg, has_class] each
    tix,           \* the position of target_file_path in target_files
    cpc,           \* the level the builder is at
    seen_files,    \* the set seen_files of prepare_context_multi
    output_chunks, \* the blocks appended so far: [category, file, target]
    level_files,   \* the list the last level looped over, with its level and target
    outcome        \* how the call ended, "none" while it runs

ctxVars == <<ctx_fn, target_files, tix, cpc, seen_files, output_chunks,
             level_files, outcome>>

VARIABLES
    first          \* what an earlier recursive_reverse_dependencies call returned

pairVars == <<first>>

VARIABLES
    variant,       \* the module regex_parse_java is taken from: "graph" or "graph_parallel"
    file_path,     \* the file regex_parse_java was called for (0: none)
    ppc,           \* the statement of regex_parse_java the call is at
    mm,            \* the position of the METHOD_HEADER_RE match a loop is at
    relations      \* the local list `relations`

parseVars == <<variant, file_path, ppc, mm, relations>>

VARIABLES
    target_class_name, \* the argument of find_bean_configurations
    texts,             \* texts[f]: what the text of file f holds
    walked,            \* the files os.walk has yielded so far
    bean_results,      \* the local list `results`
    bpc                \* "idle", "walking" or "returned"

beanVars == <<target_class_name, texts, walked, bean_results, bpc>>

\* the variables of the components other than the two above
auxVars == <<extVars, roleVars, ctxVars, pairVars, parseVars, beanVars>>

(***************************************************************************)
(* find_reverse_dependencies                                               *)
(***************************************************************************)
\* the facts the text of file i holds: one mention per referenced type,
\* written with the signal of that file
Mentions(i) == {[kind |-> SignalOf(i), fqn |-> t] : t \in refs[i]}

\* the same-package branch: file_pkg == package_name and an
\* implements/extends clause naming base_name
SamePackageSignal(i, target) ==
    /\ FilePkg(i) # NoPkg
    /\ FilePkg(i) = PackageName(target)
    /\ \E m \in Mentions(i) :
          /\ m.kind \in {"implements", "extends"}
          /\ BaseName(m.fqn) = BaseName(target)

\* combined_re.search(text): the exact import, or any simple-name pattern
CombinedSignal(i, target) ==
    \E m \in Mentions(i) :
        \/ m.kind = "import" /\ m.fqn = target
        \/ m.kind \in BaseSignals /\ BaseName(m.fqn) = BaseName(target)

MatchesEverySignal(i, target) ==
    SamePackageSignal(i, target) /\ CombinedSignal(i, target)
MatchesSignal(i, target) == SamePackageSignal(i, target) \/ CombinedSignal(i, target)

\* `not include_tests and re.search(r'(?i)test\.java$', f)`
SkipTestNoFold(include_tests, name) == ~include_tests /\ IsTestNameNoFold(name)
SkipTest(include_tests, name) == ~include_tests /\ IsTestName(name)

\* the set of paths behind the returned list(set(results))
find_reverse_dependencies(target, include_tests) ==
    {i \in Files :
        /\ IsJavaFile(FileName(i))
        /\ ~SkipTest(include_tests, FileName(i))
        /\ MatchesSignal(i, target)}

(***************************************************************************)
(* recursive_reverse_dependencies, one frame per active call               *)
(***************************************************************************)
\* `if depth <= 0: return []`
DepthExhaustedStrict(depth) == depth < 0
DepthExhausted(depth) == depth <= 0

\* `if target_fqn in visited: return []`
AlreadyVisitedNever(target, vis) == FALSE
AlreadyVisited(target, vis) == target \in vis.elems

\* the two guards that open the function, taken together
GuardsOff(depth, target, vis) == FALSE
ReturnsEarly(depth, target, vis) ==
    DepthExhausted(depth) \/ (~vis.isNone /\ AlreadyVisited(target, vis))

\* `if visited is None: visited = set()` then `visited.add(target_fqn)`
AddVisitedForgets(target, vis) ==
    [isNone |-> FALSE, elems |-> IF vis.isNone THEN {} ELSE vis.elems]
AddVisited(target, vis) ==
    [isNone |-> FALSE, elems |-> (IF vis.isNone THEN {} ELSE vis.elems) \cup {target}]

\* `if limit: files = files[:limit]` (None and 0 are both falsy)
ApplyLimitIgnored(files, lim) == files
ApplyLimit(files, lim) ==
    IF lim.isNone \/ lim.val = 0 THEN files ELSE Take(files, lim.val)

\* `depth - 1` of the recursive call
NextDepthKept(depth) == depth
NextDepth(depth) == depth - 1

\* `return list(set(results))`
KeepDuplicates(results) == {results}
Dedup(results) == ListsOf(Range(results))

Frame(target, depth) ==
    [target |-> target, depth |-> depth, pc |-> "enter",
     files |-> <<>>, i |-> 1, results |-> <<>>]

Top == stack[Len(stack)]
Callers == SubSeq(stack, 1, Len(stack) - 1)

\* the innermost call returns `list` to its caller, which extends its own
\* results with it (`results.extend(...)`); the top-level call returns it
ReturnTo(list, via) ==
    /\ ret' = list
    /\ retVia' = via
    /\ IF Len(stack) = 1
       THEN /\ stack' = <<>>
            /\ rpc' = "done"
       ELSE /\ stack' = SubSeq(stack, 1, Len(stack) - 2) \o
                   <<[stack[Len(stack) - 1] EXCEPT
                        !.results = stack[Len(stack) - 1].results \o list]>>
            /\ rpc' = rpc

\* lines 175-180: a call that returns [] before it scans anything
EnterReturn ==
    /\ rpc = "running" /\ Top.pc = "enter"
    /\ ReturnsEarly(Top.depth, Top.target, visited)
    /\ ReturnTo(<<>>, IF DepthExhausted(Top.depth) THEN "depth" ELSE "visited")
    /\ retRaw' = <<>>
    /\ UNCHANGED <<refs, args, visited, findCalls, lastFind>>
    /\ UNCHANGED <<graphVars, auxVars>>

\* lines 177-188: the call marks its target visited, scans the repository
\* and keeps at most `limit` of the files found
EnterScan ==
    /\ rpc = "running" /\ Top.pc = "enter"
    /\ ~ReturnsEarly(Top.depth, Top.target, visited)
    /\ visited' = AddVisited(Top.target, visited)
    /\ LET found == find_reverse_dependencies(Top.target, args.include_tests)
       IN /\ lastFind' = [target |-> Top.target, files |-> found]
          /\ \E files \in ListsOf(found) :
                stack' = Callers \o
                    <<[Top EXCEPT !.pc = "loop",
                                  !.files = ApplyLimit(files, args.limit)]>>
    /\ findCalls' = [findCalls EXCEPT ![Top.target] = @ + 1]
    /\ UNCHANGED <<refs, args, ret, retRaw, retVia, rpc>>
    /\ UNCHANGED <<graphVars, auxVars>>

\* the deepest call stack the model follows
StackCap == MaxDepth + 1

\* lines 190-202, one iteration of `for f in files`: f joins the results and,
\* when its package and first type are found, the function calls itself
LoopStep ==
    /\ rpc = "running" /\ Top.pc = "loop"
    /\ Top.i <= Len(Top.files)
    /\ LET f == Top.files[Top.i]
           me == [Top EXCEPT !.results = Append(Top.results, f), !.i = Top.i + 1]
       IN IF HasFqn(f)
          THEN /\ Len(stack) < StackCap
               /\ stack' = Callers \o
                    <<me, Frame(FileFqn(f), NextDepth(Top.depth))>>
          ELSE stack' = Callers \o <<me>>
    /\ UNCHANGED <<refs, args, visited, ret, retRaw, retVia, rpc, findCalls, lastFind>>
    /\ UNCHANGED <<graphVars, auxVars>>

\* line 203: the loop is over, the call returns its deduplicated results
LoopReturn ==
    /\ rpc = "running" /\ Top.pc = "loop"
    /\ Top.i > Len(Top.files)
    /\ \E list \in Dedup(Top.results) : ReturnTo(list, "loop")
    /\ retRaw' = Top.results
    /\ UNCHANGED <<refs, args, visited, findCalls, lastFind>>
    /\ UNCHANGED <<graphVars, auxVars>>

(***************************************************************************)
(* The top-level call, as prepare_context_multi makes it: visited is None, *)
(* the target is the FQN of a file of the repository.                      *)
(***************************************************************************)
TypedFiles == {i \in Files : HasFqn(i)}

\* the typed file before file i, cyclically
Pred(i) ==
    IF \E j \in TypedFiles : j < i
    THEN CHOOSE j \in TypedFiles : j < i /\ \A k \in TypedFiles : k < i => k <= j
    ELSE CHOOSE j \in TypedFiles : \A k \in TypedFiles : k <= j

\* the target prepare_context_multi is run for: the type of the first file
Targets == {FileFqn(i) : i \in {j \in TypedFiles : \A k \in TypedFiles : j <= k}}

\* the corpora explored: every file may reference the target, the type of
\* the file before it, both or neither (mutual references, self references,
\* chains of every length and types reachable along several chains arise)
Corpora(target) ==
    {[i \in Files |->
        (IF "target" \in c[i] THEN {target} ELSE {}) \cup
        (IF "pred" \in c[i] THEN {FileFqn(Pred(i))} ELSE {})] :
     c \in [Files -> SUBSET {"target", "pred"}]}

Depths == (0 - 1)..MaxDepth

Limits == {[isNone |-> TRUE, val |-> 0]} \cup
          {[isNone |-> FALSE, val |-> v] : v \in (0 - 1)..MaxLimit}

InitRRD ==
    /\ args \in [target : Targets, depth : Depths,
                  include_tests : BOOLEAN, limit : Limits]
    /\ refs \in Corpora(args.target)
    /\ stack = <<Frame(args.target, args.depth)>>
    /\ visited = [isNone |-> TRUE, elems |-> {}]
    /\ ret = <<>>
    /\ retRaw = <<>>
    /\ retVia = "none"
    /\ rpc = "running"
    /\ findCalls = [x \in TypeFqns |-> 0]
    /\ lastFind = [target |-> args.target, files |-> {}]

NextRRD == EnterReturn \/ EnterScan \/ LoopStep \/ LoopReturn

\* recursive_reverse_dependencies is not running
IdleRRD ==
    /\ refs = [i \in Files |-> {}]
    /\ args = [target |-> <<>>, depth |-> 0, include_tests |-> FALSE,
               limit |-> [isNone |-> TRUE, val |-> 0]]
    /\ stack = <<>>
    /\ visited = [isNone |-> TRUE, elems |-> {}]
    /\ ret = <<>>
    /\ retRaw = <<>>
    /\ retVia = "none"
    /\ rpc = "idle"
    /\ findCalls = [x \in TypeFqns |-> 0]
    /\ lastFind = [target |-> <<>>, files |-> {}]

(***************************************************************************)
(* graph_parallel.py: the source files                                     *)
(***************************************************************************)
Sources == 1..NSources

CONTROL_KEYWORDS == {"if", "for", "while", "switch", "catch", "return", "throw", "new"}

\* PACKAGE_RE.search(code), "default" without a package statement
SrcPackage(k) ==
    CASE k = 1 -> "p"
      [] k = 2 -> "p"
      [] k = 3 -> "q"
      [] OTHER -> "default"

\* CLASS_RE: the one type each file declares
SrcClass(k) ==
    CASE k = 1 -> "A"
      [] k = 2 -> "B"
      [] k = 3 -> "C"
      [] OTHER -> "D"

(***************************************************************************)
(* Stereotype role classification of regex_parse_java (graph_parallel.py   *)
(* lines 77-95, graph.py lines 61-78).                                     *)
(***************************************************************************)
\* the look-back of `prefix_start = max(0, cm.start() - 400)`
LookBack == 400

\* the ordered dict SPRING_ANNOTATIONS
SPRING_ANNOTATIONS ==
    << [k |-> <<"C","o","n","t","r","o","l","l","e","r">>, v |-> "controller"],
       [k |-> <<"R","e","s","t","C","o","n","t","r","o","l","l","e","r">>,
        v |-> "controller"],
       [k |-> <<"S","e","r","v","i","c","e">>, v |-> "service"],
       [k |-> <<"R","e","p","o","s","i","t","o","r","y">>, v |-> "repository"],
       [k |-> <<"C","o","m","p","o","n","e","n","t">>, v |-> "component"],
       [k |-> <<"C","o","n","f","i","g","u","r","a","t","i","o","n">>,
        v |-> "configuration"] >>

\* str.lower()
LowerStr(w) == [c \in 1..Len(w) |-> Lower(w[c])]

\* `sub in w` on strings
Contains(w, sub) ==
    \E b \in 0..(Len(w) - Len(sub)) : SubSeq(w, b + 1, b + Len(sub)) = sub

\* `for k, v in SPRING_ANNOTATIONS.items(): if k.lower() in a.lower():
\* role = v; break`, from entry j on; "class" when no key matches
RECURSIVE RoleOfAnnotation(_, _)
RoleOfAnnotation(a, j) ==
    IF j > Len(SPRING_ANNOTATIONS) THEN "class"
    ELSE IF Contains(LowerStr(a), LowerStr(SPRING_ANNOTATIONS[j].k))
         THEN SPRING_ANNOTATIONS[j].v
         ELSE RoleOfAnnotation(a, j + 1)

\* `for a in annos: ...; if role != "class": break`, from annotation n on
RECURSIVE RoleOfAnnos(_, _)
RoleOfAnnos(annos, n) ==
    IF n > Len(annos) THEN "class"
    ELSE IF RoleOfAnnotation(annos[n], 1) # "class"
         THEN RoleOfAnnotation(annos[n], 1)
         ELSE RoleOfAnnos(annos, n + 1)

\* prefix_start = max(0, cm.start() - 400)
PrefixStart(start) == Max(0, start - LookBack)

\* re.findall(r"@([A-Za-z0-9_\.]+)", code[prefix_start:cm.start()]): the
\* names of the annotations whose '@' lies in the prefix, in text order
RECURSIVE PrefixAnnos(_, _, _)
PrefixAnnos(text, start, n) ==
    IF n > Len(text) THEN <<>>
    ELSE (IF PrefixStart(start) <= text[n].at /\ text[n].at < start
          THEN <<text[n].name>> ELSE <<>>) \o
         PrefixAnnos(text, start, n + 1)

\* the role of a declaration whose CLASS_RE match starts at `start`
RoleAt(text, start) == RoleOfAnnos(PrefixAnnos(text, start, 1), 1)

\* cm.start() of the CLASS_RE match of the type file k declares
SrcClassStart(k) ==
    CASE k = 1 -> 130
      [] k = 2 -> 40
      [] k = 3 -> 90
      [] OTHER -> 20

\* the annotations in the text of file k before its type keyword
\*   A.java: @Service, a comment line, then `public class A`
\*   B.java: @Repository directly on `public class B`
\*   C.java: @RestController, a comment line, then `public class C`
\*   D.java: none
SrcAnnos(k) ==
    CASE k = 1 -> <<[name |-> <<"S","e","r","v","i","c","e">>, at |-> 100]>>
      [] k = 2 -> <<[name |-> <<"R","e","p","o","s","i","t","o","r","y">>,
                     at |-> 40]>>
      [] k = 3 -> <<[name |-> <<"R","e","s","t","C","o","n","t","r","o","l","l","e","r">>,
                     at |-> 60]>>
      [] OTHER -> <<>>

\* the role the annotations before the declaration give it
SrcRole(k) == RoleAt(SrcAnnos(k), SrcClassStart(k))

\* the tokens of a type body: a method header as METHOD_HEADER_RE matches
\* it (its opening brace included), a call-site token as CALL_RE matches
\* it, and the braces that belong to neither
Hdr(n) == [t |-> "hdr", name |-> n]
Call(n) == [t |-> "call", name |-> n]
Open == [t |-> "open", name |-> "{"]
Close == [t |-> "close", name |-> "}"]

\* class_body of the one type file k declares, from its opening brace on
\*   A.java: @Service
\*           // the A service
\*           public class A implements I, J {
\*             @Autowired
\*             private B b;
\*             public A() { }
\*             void foo() { bar(); if (x) foo(); log(); }
\*           }
\*   B.java: @Repository public class B extends Base {
\*             void bar() { baz(); }
\*             static { if (y > 0) { } else if (y < 0) { foo(); } }
\*           }
\*   C.java: @RestController
\*           // the C controller
\*           public class C implements Map<K, V> {
\*             void baz() {
\*               bar();
\*               synchronized (this) { qux(); }
\*             }
\*           }
\*   D.java: class D {
\*             void qux() { foo(); }
\*           }
SrcClassBody(k) ==
    CASE k = 1 -> <<Open, Hdr("A"), Close,
                    Hdr("foo"), Call("bar"), Call("if"), Call("foo"),
                    Call("log"), Close, Close>>
      [] k = 2 -> <<Open, Hdr("bar"), Call("baz"), Close,
                    Open, Call("if"), Open, Close,
                    Hdr("if"), Call("foo"), Close, Close, Close>>
      [] k = 3 -> <<Open, Hdr("baz"), Call("bar"),
                    Hdr("synchronized"), Call("qux"), Close, Close, Close>>
      [] OTHER -> <<Open, Hdr("qux"), Call("foo"), Close, Close>>

\* the positions of the METHOD_HEADER_RE matches in a type body, in text order
HdrAt(toks) ==
    SelectSeq([i \in 1..Len(toks) |-> i], LAMBDA i : toks[i].t = "hdr")

\* the names CALL_RE.finditer yields on the tokens lo..hi: the call sites
\* and the `name(` of every header in between
CallTokens(toks, lo, hi) ==
    LET call_ms == SelectSeq(SubSeq(toks, lo, hi),
                             LAMBDA x : x.t \in {"call", "hdr"})
    IN  [j \in 1..Len(call_ms) |-> call_ms[j].name]

\* METHOD_HEADER_RE.finditer(class_body): the headers matched in the type
\* body, in text order, each with the CALL_RE tokens up to the next header
SrcHeaders(k) ==
    LET toks == SrcClassBody(k)
        hp == HdrAt(toks)
    IN  [h \in 1..Len(hp) |->
            [name |-> toks[hp[h]].name,
             body |-> CallTokens(toks, hp[h] + 1,
                                 IF h < Len(hp) THEN hp[h + 1] - 1
                                 ELSE Len(toks))]]

\* the methods the type of file k really declares
SrcMethods(k) ==
    CASE k = 1 -> {"foo"}
      [] k = 2 -> {"bar"}
      [] k = 3 -> {"baz"}
      [] OTHER -> {"qux"}

\* the look-ahead of `tail_region = code[cm.end():cm.end() + 400]`
TailWindow == 400

\* the text after `extends` / `implements` in the header of the type of
\* file k, up to the opening brace: where it starts, counted from cm.end(),
\* and its text, cut into names, "," and " "
SrcExtends(k) ==
    CASE k = 2 -> <<[at |-> 9, text |-> <<"Base", " ">>]>>
      [] OTHER -> <<>>

SrcImplements(k) ==
    CASE k = 1 -> <<[at |-> 12, text |-> <<"I", ",", " ", "J", " ">>]>>
      [] k = 3 -> <<[at |-> 12, text |-> <<"Map<K", ",", " ", "V>", " ">>]>>
      [] OTHER -> <<>>

\* the supertypes and interfaces the header of the type of file k lists
SrcSupertypes(k) ==
    CASE k = 1 -> {"I", "J"}
      [] k = 2 -> {"Base"}
      [] k = 3 -> {"Map<K, V>"}
      [] OTHER -> {}

\* AUTOWIRED_FIELD_RE.finditer(class_body): the field types, whitespace
\* runs already replaced by one blank
SrcAutowired(k) ==
    CASE k = 1 -> <<"B">>
      [] OTHER -> <<>>

\* constructor_re.finditer(class_body): how many constructor headers match
SrcConstructors(k) ==
    CASE k = 1 -> 1
      [] OTHER -> 0

\* f"{package}.{cls_name}" and f"{fqn_class}.{method_name}"
FqnClass(k) == SrcPackage(k) \o "." \o SrcClass(k)
FqnMethod(k, name) == FqnClass(k) \o "." \o name

Relation(from, to, type, role) ==
    [from |-> from, to |-> to, type |-> type, role |-> role]

\* the `to` of a declares relation
NoTo == "None"

\* class_body[mm.end() - 1 : mm.end() + 4000]: the text from the opening
\* brace of header h on, which runs into the headers and bodies after it
RECURSIVE TextFrom(_, _)
TextFrom(hs, h) ==
    IF h > Len(hs) THEN <<>>
    ELSE hs[h].body \o
         (IF h < Len(hs) THEN <<hs[h + 1].name>> ELSE <<>>) \o
         TextFrom(hs, h + 1)

MethodText(k, h) == TextFrom(SrcHeaders(k), h)

\* lines 104-110: the names the methods loop adds to ALL_DEFINED_METHODS
DefinedByFqnOnly(k) ==
    {FqnMethod(k, SrcHeaders(k)[h].name) :
        h \in {g \in 1..Len(SrcHeaders(k)) :
                 SrcHeaders(k)[g].name \notin CONTROL_KEYWORDS}}
DefinedBy(k) ==
    UNION {{SrcHeaders(k)[h].name, FqnMethod(k, SrcHeaders(k)[h].name)} :
           h \in {g \in 1..Len(SrcHeaders(k)) :
                    SrcHeaders(k)[g].name \notin CONTROL_KEYWORDS}}

\* lines 104-114: the has_method relations
RECURSIVE HasMethodRels(_, _)
HasMethodRels(k, h) ==
    IF h > Len(SrcHeaders(k)) THEN <<>>
    ELSE (IF SrcHeaders(k)[h].name \in CONTROL_KEYWORDS THEN <<>>
          ELSE <<Relation(FqnClass(k), FqnMethod(k, SrcHeaders(k)[h].name),
                          "has_method", SrcRole(k))>>) \o
         HasMethodRels(k, h + 1)

\* lines 120-124: the autowired relations
AutowiredRels(k) ==
    [j \in 1..Len(SrcAutowired(k)) |->
        Relation(FqnClass(k), SrcAutowired(k)[j], "autowired", SrcRole(k))]

\* lines 127-134: one has_constructor relation per constructor header
ConstructorRels(k) ==
    [j \in 1..SrcConstructors(k) |->
        Relation(FqnClass(k), FqnMethod(k, SrcClass(k)), "has_constructor",
                 SrcRole(k))]

\* lines 92-134: what regex_parse_java appends before the method-calls loop
DeclRels(k) ==
    <<Relation(FqnClass(k), NoTo, "declares", SrcRole(k))>> \o
    HasMethodRels(k, 1) \o AutowiredRels(k) \o ConstructorRels(k)

\* lines 141-148: the calls relations of one method text against the index
RECURSIVE CallsOfTextUnfiltered(_, _, _, _, _)
CallsOfTextUnfiltered(k, name, text, t, index) ==
    IF t > Len(text) THEN <<>>
    ELSE (IF text[t] \in index
          THEN <<Relation(FqnMethod(k, name), text[t], "calls", SrcRole(k))>>
          ELSE <<>>) \o
         CallsOfTextUnfiltered(k, name, text, t + 1, index)
RECURSIVE CallsOfText(_, _, _, _, _)
CallsOfText(k, name, text, t, index) ==
    IF t > Len(text) THEN <<>>
    ELSE (IF text[t] \in CONTROL_KEYWORDS \/ text[t] = name THEN <<>>
          ELSE IF text[t] \in index
               THEN <<Relation(FqnMethod(k, name), text[t], "calls", SrcRole(k))>>
               ELSE <<>>) \o
         CallsOfText(k, name, text, t + 1, index)

\* lines 137-148: the method-calls loop over every matched header
RECURSIVE CallRels(_, _, _)
CallRels(k, h, index) ==
    IF h > Len(SrcHeaders(k)) THEN <<>>
    ELSE CallsOfText(k, SrcHeaders(k)[h].name, MethodText(k, h), 1, index) \o
         CallRels(k, h + 1, index)

(***************************************************************************)
(* regex_parse_java of graph.py: the inheritance clauses and the           *)
(* brace-balanced method text                                              *)
(***************************************************************************)
\* re.search on tail_region: the first clause that starts inside the window
InTail(clauses) == SelectSeq(clauses, LAMBDA c : c.at < TailWindow)

\* the group of r'\bextends\s+([A-Za-z0-9_\.<>]+)': the text up to the
\* first character outside the class, which holds neither "," nor blanks
RECURSIVE ExtendsGroup(_)
ExtendsGroup(text) ==
    IF text = <<>> \/ Head(text) \in {",", " "} THEN ""
    ELSE Head(text) \o ExtendsGroup(Tail(text))

\* str.split(","): the parts between the commas
RECURSIVE SplitComma(_, _)
SplitComma(text, part) ==
    IF text = <<>> THEN <<part>>
    ELSE IF Head(text) = "," THEN <<part>> \o SplitComma(Tail(text), <<>>)
         ELSE SplitComma(Tail(text), Append(part, Head(text)))

\* str.strip(), then the part as one string
RECURSIVE StripLeft(_)
StripLeft(part) ==
    IF part # <<>> /\ Head(part) = " " THEN StripLeft(Tail(part)) ELSE part

RECURSIVE StripRight(_)
StripRight(part) ==
    IF part # <<>> /\ part[Len(part)] = " "
    THEN StripRight(SubSeq(part, 1, Len(part) - 1)) ELSE part

RECURSIVE Joined(_)
Joined(part) == IF part = <<>> THEN "" ELSE Head(part) \o Joined(Tail(part))

Strip(part) == Joined(StripRight(StripLeft(part)))

\* graph.py lines 81-83: the extends relation
ExtendsRels(k) ==
    LET ext_m == InTail(SrcExtends(k))
    IN  IF ext_m = <<>> THEN <<>>
        ELSE <<Relation(FqnClass(k), ExtendsGroup(ext_m[1].text), "extends",
                        SrcRole(k))>>

\* graph.py lines 84-88: the implements relations, role "interface"
ImplementsRels(k) ==
    LET impl_m == InTail(SrcImplements(k))
    IN  IF impl_m = <<>> THEN <<>>
        ELSE LET impls == SplitComma(impl_m[1].text, <<>>)
             IN  [j \in 1..Len(impls) |->
                     Relation(FqnClass(k), Strip(impls[j]), "implements",
                              "interface")]

\* graph.py lines 127-139: the position of the brace that closes the block
\* opened at the token before j, 0 when the scan runs off the type body
RECURSIVE ScanClose(_, _, _)
ScanClose(toks, j, depth2) ==
    IF j > Len(toks) THEN 0
    ELSE IF toks[j].t \in {"open", "hdr"} THEN ScanClose(toks, j + 1, depth2 + 1)
    ELSE IF toks[j].t = "close"
         THEN (IF depth2 - 1 = 0 THEN j ELSE ScanClose(toks, j + 1, depth2 - 1))
    ELSE ScanClose(toks, j + 1, depth2)

\* graph.py line 140: method_text = class_body[start_pos:method_end + 1],
\* as the CALL_RE tokens in it; method_end stays at start_pos when no
\* closing brace is found
BalancedText(k, h) ==
    LET toks == SrcClassBody(k)
        start_pos == HdrAt(toks)[h]
        method_end == ScanClose(toks, start_pos + 1, 1)
    IN  IF method_end = 0 THEN <<>>
        ELSE CallTokens(toks, start_pos + 1, method_end)

\* graph.py lines 143-147: the calls relations of one method text
RECURSIVE CallsOfBalanced(_, _, _, _)
CallsOfBalanced(k, name, text, t) ==
    IF t > Len(text) THEN <<>>
    ELSE (IF text[t] \in CONTROL_KEYWORDS \/ text[t] = name THEN <<>>
          ELSE <<Relation(FqnMethod(k, name), text[t], "calls", SrcRole(k))>>) \o
         CallsOfBalanced(k, name, text, t + 1)

(***************************************************************************)
(* build_repo_graph                                                        *)
(***************************************************************************)
\* lines 165-171: every Pass-1 future has been taken from as_completed
Pass1CompleteSome ==
    \E k \in java_files : p1[k] \in {"collected", "failed"}
Pass1Complete ==
    \A k \in java_files : p1[k] \in {"collected", "failed"}

\* `except Exception as e: print(...)`: the phase the call is in after a
\* task raised
Propagates(cur) == "aborted"
AfterError(cur) == cur

\* build_repo_graph(repo_path) is called: os.walk, then the Pass-1 futures
\* are submitted
StartRun ==
    /\ phase \in {"idle", "done"}
    /\ runs < MaxRuns
    /\ runs' = runs + 1
    /\ \E files \in SUBSET Sources : java_files' = files
    /\ phase' = "pass1"
    /\ p1' = [k \in Sources |-> "pending"]
    /\ p2' = [k \in Sources |-> "pending"]
    /\ p2rels' = [k \in Sources |-> <<>>]
    /\ all_relations' = <<>>
    /\ built' = {}
    /\ UNCHANGED <<ALL_DEFINED_METHODS, p1Index>>
    /\ UNCHANGED <<rrdVars, auxVars>>

\* line 164: a pool worker runs open(path); it returns the file or raises
P1Open(k) ==
    /\ phase = "pass1" /\ k \in java_files /\ p1[k] = "pending"
    /\ \E ok \in BOOLEAN :
          p1' = [p1 EXCEPT ![k] = IF ok THEN "opened" ELSE "openfailed"]
    /\ UNCHANGED <<ALL_DEFINED_METHODS, runs, phase, java_files, p2, p2rels,
                   all_relations, built, p1Index>>
    /\ UNCHANGED <<rrdVars, auxVars>>

\* lines 165-169: the main thread takes a finished future, reads the file
\* and runs regex_parse_java(path, code, collect_methods_only=True)
P1Collect(k) ==
    /\ phase = "pass1" /\ k \in java_files /\ p1[k] = "opened"
    /\ p1' = [p1 EXCEPT ![k] = "collected"]
    /\ ALL_DEFINED_METHODS' = ALL_DEFINED_METHODS \cup DefinedBy(k)
    /\ built' = built \cup DefinedBy(k)
    /\ UNCHANGED <<runs, phase, java_files, p2, p2rels, all_relations, p1Index>>
    /\ UNCHANGED <<rrdVars, auxVars>>

\* lines 167-171: fut.result() or read() raises and the error is printed
P1Fail(k) ==
    /\ phase = "pass1" /\ k \in java_files /\ p1[k] \in {"opened", "openfailed"}
    /\ p1' = [p1 EXCEPT ![k] = "failed"]
    /\ phase' = AfterError(phase)
    /\ UNCHANGED <<ALL_DEFINED_METHODS, runs, java_files, p2, p2rels,
                   all_relations, built, p1Index>>
    /\ UNCHANGED <<rrdVars, auxVars>>

\* lines 173-186: the first pool is left and the Pass-2 tasks are submitted
StartPass2 ==
    /\ phase = "pass1"
    /\ Pass1Complete
    /\ phase' = "pass2"
    /\ p1Index' = ALL_DEFINED_METHODS
    /\ UNCHANGED <<ALL_DEFINED_METHODS, runs, java_files, p1, p2, p2rels,
                   all_relations, built>>
    /\ UNCHANGED <<rrdVars, auxVars>>

\* lines 179-182 and 70-134: a Pass-2 worker reads its file and runs
\* regex_parse_java up to the method-calls loop
P2Scan(k) ==
    /\ phase = "pass2" /\ k \in java_files /\ p2[k] = "pending"
    /\ p2' = [p2 EXCEPT ![k] = "scanned"]
    /\ ALL_DEFINED_METHODS' = ALL_DEFINED_METHODS \cup DefinedBy(k)
    /\ p2rels' = [p2rels EXCEPT ![k] = DeclRels(k)]
    /\ UNCHANGED <<runs, phase, java_files, p1, all_relations, built, p1Index>>
    /\ UNCHANGED <<rrdVars, auxVars>>

\* line 181: open or read raises in the worker; the future holds the error
P2ReadFail(k) ==
    /\ phase = "pass2" /\ k \in java_files /\ p2[k] = "pending"
    /\ p2' = [p2 EXCEPT ![k] = "error"]
    /\ UNCHANGED <<ALL_DEFINED_METHODS, runs, phase, java_files, p1, p2rels,
                   all_relations, built, p1Index>>
    /\ UNCHANGED <<rrdVars, auxVars>>

\* lines 136-149: the worker runs the method-calls loop against the index
\* as it is now and returns its relations
P2Calls(k) ==
    /\ phase = "pass2" /\ k \in java_files /\ p2[k] = "scanned"
    /\ p2' = [p2 EXCEPT ![k] = "finished"]
    /\ p2rels' = [p2rels EXCEPT ![k] = @ \o CallRels(k, 1, ALL_DEFINED_METHODS)]
    /\ UNCHANGED <<ALL_DEFINED_METHODS, runs, phase, java_files, p1,
                   all_relations, built, p1Index>>
    /\ UNCHANGED <<rrdVars, auxVars>>

\* lines 187-190: the main thread takes a finished future and extends
\* all_relations with its relations
P2Merge(k) ==
    /\ phase = "pass2" /\ k \in java_files /\ p2[k] = "finished"
    /\ p2' = [p2 EXCEPT ![k] = "merged"]
    /\ all_relations' = all_relations \o p2rels[k]
    /\ UNCHANGED <<ALL_DEFINED_METHODS, runs, phase, java_files, p1, p2rels,
                   built, p1Index>>
    /\ UNCHANGED <<rrdVars, auxVars>>

\* lines 188-192: fut.result() raises and the error is printed
P2Report(k) ==
    /\ phase = "pass2" /\ k \in java_files /\ p2[k] = "error"
    /\ p2' = [p2 EXCEPT ![k] = "reported"]
    /\ phase' = AfterError(phase)
    /\ UNCHANGED <<ALL_DEFINED_METHODS, runs, java_files, p1, p2rels,
                   all_relations, built, p1Index>>
    /\ UNCHANGED <<rrdVars, auxVars>>

\* line 194: every Pass-2 future has been taken; return all_relations
Return ==
    /\ phase = "pass2"
    /\ \A k \in java_files : p2[k] \in {"merged", "reported"}
    /\ phase' = "done"
    /\ UNCHANGED <<ALL_DEFINED_METHODS, runs, java_files, p1, p2, p2rels,
                   all_relations, built, p1Index>>
    /\ UNCHANGED <<rrdVars, auxVars>>

\* the module has been imported: ALL_DEFINED_METHODS = set()
InitGraph ==
    /\ ALL_DEFINED_METHODS = {}
    /\ runs = 0
    /\ phase = "idle"
    /\ java_files = {}
    /\ p1 = [k \in Sources |-> "pending"]
    /\ p2 = [k \in Sources |-> "pending"]
    /\ p2rels = [k \in Sources |-> <<>>]
    /\ all_relations = <<>>
    /\ built = {}
    /\ p1Index = {}

NextGraph ==
    \/ StartRun
    \/ \E k \in Sources : P1Open(k)
    \/ \E k \in Sources : P1Collect(k)
    \/ \E k \in Sources : P1Fail(k)
    \/ StartPass2
    \/ \E k \in Sources : P2Scan(k)
    \/ \E k \in Sources : P2ReadFail(k)
    \/ \E k \in Sources : P2Calls(k)
    \/ \E k \in Sources : P2Merge(k)
    \/ \E k \in Sources : P2Report(k)
    \/ Return

(***************************************************************************)
(* The balanced-block extractors: extract_full_type of                     *)
(* prepare_context_from_imports.py, extract_full_class and                 *)
(* extract_full_method of dep_revdep_upto_d.py.                            *)
(*                                                                         *)
(* A buffer is a sequence of tokens:                                       *)
(*   "T"  a text TYPE_RE / CLASS_RE matches ("class A"); it holds no brace *)
(*   "M"  a text METHOD_RE matches for the requested method_name           *)
(*        ("void m() {"); its last character is an opening brace           *)
(*   "{"  "}"  a brace anywhere else in the text                           *)
(***************************************************************************)
Tokens == {"T", "M", "{", "}"}

Extractors == {"extract_full_type", "extract_full_class", "extract_full_method"}

\* code[i] == '{' for a character of token t
IsOpen(t) == t \in {"{", "M"}
\* code[i] == '}'
IsClose(t) == t = "}"

\* the regular expression the extractor searches with
HeaderToken(fn) == IF fn = "extract_full_method" THEN "M" ELSE "T"

\* TYPE_RE.search(code) / CLASS_RE.search(code) / the first m of
\* METHOD_RE.finditer(code) with m.group(1) == method_name: 0 without a match
FirstMatch(buf, fn) ==
    IF \E p \in 1..Len(buf) : buf[p] = HeaderToken(fn)
    THEN CHOOSE p \in 1..Len(buf) :
             /\ buf[p] = HeaderToken(fn)
             /\ \A q \in 1..(p - 1) : buf[q] # HeaderToken(fn)
    ELSE 0

NoSpan == [isNone |-> TRUE, lo |-> 0, hi |-> 0]
Span(lo, hi) == [isNone |-> FALSE, lo |-> lo, hi |-> hi]

\* code[start:i + 1], with 1-based token positions
Slice(buf, lo, hi) == SubSeq(buf, lo, hi)

\* `return code`: what extract_full_type and extract_full_class fall back to
FallbackEmpty(buf) == <<>>
Fallback(buf) == buf

\* `return code[start:]`: what extract_full_method falls back to
TailFrom(buf, lo) == SubSeq(buf, lo, Len(buf))

\* the extractor is called on a buffer
InitExtract ==
    /\ code \in UNION {[1..n -> Tokens] : n \in 0..MaxBuf}
    /\ xfn \in Extractors
    /\ xpc = "call"
    /\ xstart = 0
    /\ xi = 0
    /\ xdepth = 0
    /\ xret = <<>>
    /\ xspan = NoSpan

IdleExtract ==
    /\ code = <<>>
    /\ xfn = "extract_full_type"
    /\ xpc = "idle"
    /\ xstart = 0
    /\ xi = 0
    /\ xdepth = 0
    /\ xret = <<>>
    /\ xspan = NoSpan

\* the search finds no header: `return code`, and `return None` at the end
\* of extract_full_method
XNoMatch ==
    /\ xpc = "call"
    /\ FirstMatch(code, xfn) = 0
    /\ xpc' = "returned"
    /\ IF xfn = "extract_full_method"
       THEN xret' = <<>> /\ xspan' = NoSpan
       ELSE xret' = Fallback(code) /\ xspan' = Span(1, Len(code))
    /\ UNCHANGED <<code, xfn, xstart, xi, xdepth>>
    /\ UNCHANGED <<rrdVars, graphVars, roleVars, ctxVars, pairVars,
                 parseVars, beanVars>>

\* start = match.start(); depth = 0; the loop starts at match.end()
XMatch ==
    /\ xpc = "call"
    /\ FirstMatch(code, xfn) # 0
    /\ xstart' = FirstMatch(code, xfn)
    /\ xi' = FirstMatch(code, xfn) + 1
    /\ xdepth' = 0
    /\ xpc' = "scan"
    /\ UNCHANGED <<code, xfn, xret, xspan>>
    /\ UNCHANGED <<rrdVars, graphVars, roleVars, ctxVars, pairVars,
                 parseVars, beanVars>>

\* code[i] == '{': depth += 1
XOpen ==
    /\ xpc = "scan" /\ xi <= Len(code)
    /\ IsOpen(code[xi])
    /\ xdepth' = xdepth + 1
    /\ xi' = xi + 1
    /\ UNCHANGED <<code, xfn, xpc, xstart, xret, xspan>>
    /\ UNCHANGED <<rrdVars, graphVars, roleVars, ctxVars, pairVars,
                 parseVars, beanVars>>

\* code[i] == '}'.  extract_full_type and extract_full_class lower the
\* depth and return when it is 0 afterwards; extract_full_method returns
\* when it is 0 before and lowers it otherwise.
XClose ==
    /\ xpc = "scan" /\ xi <= Len(code)
    /\ IsClose(code[xi])
    /\ LET returns == IF xfn = "extract_full_method"
                      THEN xdepth = 0
                      ELSE xdepth - 1 = 0
       IN  IF returns
           THEN /\ xret' = Slice(code, xstart, xi)
                /\ xspan' = Span(xstart, xi)
                /\ xpc' = "returned"
                /\ xdepth' = IF xfn = "extract_full_method" THEN xdepth
                             ELSE xdepth - 1
                /\ xi' = xi
           ELSE /\ xdepth' = xdepth - 1
                /\ xi' = xi + 1
                /\ UNCHANGED <<xret, xspan, xpc>>
    /\ UNCHANGED <<code, xfn, xstart>>
    /\ UNCHANGED <<rrdVars, graphVars, roleVars, ctxVars, pairVars,
                 parseVars, beanVars>>

\* any other character: the loop moves on
XSkip ==
    /\ xpc = "scan" /\ xi <= Len(code)
    /\ ~IsOpen(code[xi]) /\ ~IsClose(code[xi])
    /\ xi' = xi + 1
    /\ UNCHANGED <<code, xfn, xpc, xstart, xdepth, xret, xspan>>
    /\ UNCHANGED <<rrdVars, graphVars, roleVars, ctxVars, pairVars,
                 parseVars, beanVars>>

\* the loop ends without a return: `return code`, `return code[start:]`
XExhausted ==
    /\ xpc = "scan" /\ xi > Len(code)
    /\ xpc' = "returned"
    /\ IF xfn = "extract_full_method"
       THEN xret' = TailFrom(code, xstart) /\ xspan' = Span(xstart, Len(code))
       ELSE xret' = Fallback(code) /\ xspan' = Span(1, Len(code))
    /\ UNCHANGED <<code, xfn, xstart, xi, xdepth>>
    /\ UNCHANGED <<rrdVars, graphVars, roleVars, ctxVars, pairVars,
                 parseVars, beanVars>>

NextExtract == XNoMatch \/ XMatch \/ XOpen \/ XClose \/ XSkip \/ XExhausted

(***************************************************************************)
(* One CLASS_RE match of regex_parse_java, up to the declares relation.    *)
(***************************************************************************)
\* annotation names found in the text
AnnoNames ==
    { <<"S","e","r","v","i","c","e">>,
      <<"R","e","s","t","C","o","n","t","r","o","l","l","e","r">>,
      <<"R","e","p","o","s","i","t","o","r","y">>,
      <<"D","e","p","r","e","c","a","t","e","d">> }

\* where the match can start, and where an annotation can stand relative to
\* it: outside the look-back, on its first character, inside it, and on or
\* after cm.start() when CLASS_RE has taken the annotation into the match
CmStarts == {30, 450}
Offsets == {0 - 401, 0 - 400, 0 - 20, 0, 12}
AnnoSlots(start) == {start + o : o \in Offsets} \cap Nat

\* the annotation layouts: text order, and an annotation inside the match
\* only behind the one the match starts with
Layouts(start) ==
    {t \in UNION {[1..n -> [name : AnnoNames, at : AnnoSlots(start)]] :
                    n \in 0..MaxAnnos} :
        /\ \A i, j \in 1..Len(t) : i < j => t[i].at < t[j].at
        /\ (\E i \in 1..Len(t) : t[i].at > start) =>
               (\E i \in 1..Len(t) : t[i].at = start)}

InitRole ==
    /\ cm_start \in CmStarts
    /\ annos_text \in Layouts(cm_start)
    /\ collect_methods_only \in BOOLEAN
    /\ role_of_cm = "class"
    /\ rolepc = "matched"
    /\ declared = <<>>

IdleRole ==
    /\ cm_start = 0
    /\ annos_text = <<>>
    /\ collect_methods_only = FALSE
    /\ role_of_cm = "class"
    /\ rolepc = "idle"
    /\ declared = <<>>

\* lines 80-90: prefix, annos and the two loops that set role
ClassifyRole ==
    /\ rolepc = "matched"
    /\ role_of_cm' = RoleAt(annos_text, cm_start)
    /\ rolepc' = "classified"
    /\ UNCHANGED <<cm_start, annos_text, collect_methods_only, declared>>
    /\ UNCHANGED <<rrdVars, graphVars, extVars, ctxVars, pairVars,
                 parseVars, beanVars>>

\* lines 92-95: relations.append({... "type": "declares", "role": role})
AppendDeclares ==
    /\ rolepc = "classified"
    /\ ~collect_methods_only
    /\ declared' = Append(declared, Relation("p.X", NoTo, "declares", role_of_cm))
    /\ rolepc' = "declared"
    /\ UNCHANGED <<cm_start, annos_text, collect_methods_only, role_of_cm>>
    /\ UNCHANGED <<rrdVars, graphVars, extVars, ctxVars, pairVars,
                 parseVars, beanVars>>

\* line 92 with collect_methods_only: nothing is appended
SkipDeclares ==
    /\ rolepc = "classified"
    /\ collect_methods_only
    /\ rolepc' = "declared"
    /\ UNCHANGED <<cm_start, annos_text, collect_methods_only, role_of_cm, declared>>
    /\ UNCHANGED <<rrdVars, graphVars, extVars, ctxVars, pairVars,
                 parseVars, beanVars>>

NextRole == ClassifyRole \/ AppendDeclares \/ SkipDeclares

(***************************************************************************)
(* The context builders: prepare_context_multi of                          *)
(* prepare_context_from_imports.py and prepare_context of                  *)
(* dep_revdep_upto_d.py (dep_revdep_context.py starts the same way).       *)
(***************************************************************************)
CtxFiles == 1..NCtxFiles

Builders == {"prepare_context", "prepare_context_multi"}

\* a target file: whether it exists under repo_path, and whether its text
\* has a package statement and a type declaration
TargetKinds == [exists : BOOLEAN, has_pkg : BOOLEAN, has_class : BOOLEAN]

\* the files one level finds for the current target, in the order listed
RECURSIVE Ascending(_)
Ascending(S) ==
    IF S = {} THEN <<>>
    ELSE LET m == CHOOSE x \in S : \A y \in S : x <= y
         IN  <<m>> \o Ascending(S \ {m})

\* a level may list a file twice (an import named twice, a type named in
\* two clauses)
Listings ==
    {Ascending(S) : S \in SUBSET CtxFiles} \cup
    UNION {{Ascending(S) \o <<m>> : m \in S} : S \in SUBSET CtxFiles}

NoLevel == [level |-> "none", target |-> 0, files |-> <<>>]

Chunk(category, file, target) ==
    [category |-> category, file |-> file, target |-> target]

\* the loop over the files of one level: `if f in seen_files: continue;
\* seen_files.add(f); output_chunks.append(...)`; prepare_context has no
\* seen_files and appends every file
RECURSIVE AppendLevelUnseen(_, _, _, _, _, _)
AppendLevelUnseen(fn, category, found, n, seen, chunks) ==
    IF n > Len(found) THEN [seen |-> seen, chunks |-> chunks]
    ELSE AppendLevelUnseen(fn, category, found, n + 1,
                           IF fn = "prepare_context_multi"
                           THEN seen \cup {found[n]} ELSE seen,
                           Append(chunks, Chunk(category, found[n], tix)))
RECURSIVE AppendLevel(_, _, _, _, _, _)
AppendLevel(fn, category, found, n, seen, chunks) ==
    IF n > Len(found) THEN [seen |-> seen, chunks |-> chunks]
    ELSE IF fn = "prepare_context_multi" /\ found[n] \in seen
         THEN AppendLevel(fn, category, found, n + 1, seen, chunks)
         ELSE AppendLevel(fn, category, found, n + 1,
                          IF fn = "prepare_context_multi"
                          THEN seen \cup {found[n]} ELSE seen,
                          Append(chunks, Chunk(category, found[n], tix)))

\* what a missing target leads to: prepare_context raises
\* FileNotFoundError, prepare_context_multi prints and continues
OnMissing(fn) == IF fn = "prepare_context" THEN "raise" ELSE "continue"

\* the levels in the order of the function body
LevelsReversed == <<"imports", "reverse", "inheritance", "beans">>
Levels == <<"imports", "inheritance", "reverse", "beans">>

CategoryOf(level) ==
    CASE level = "imports" -> "IMPORT"
      [] level = "inheritance" -> "EXTENDS / IMPLEMENTS"
      [] level = "reverse" -> "REVERSE DEPENDENCY"
      [] OTHER -> "BEAN / CONFIGURATION"

\* the level after `level`, "next" behind the last one
LevelAfter(level) ==
    LET n == CHOOSE m \in 1..Len(Levels) : Levels[m] = level
    IN  IF n = Len(Levels) THEN "next" ELSE Levels[n + 1]

\* `if current_fqn:` before the reverse level, `if current_class:` before
\* the bean level
LevelRuns(level, t) ==
    CASE level = "reverse" -> t.has_pkg /\ t.has_class
      [] level = "beans" -> t.has_class
      [] OTHER -> TRUE

InitCtx ==
    /\ ctx_fn \in Builders
    /\ target_files \in UNION {[1..n -> TargetKinds] :
                                n \in 1..(IF ctx_fn = "prepare_context" THEN 1
                                          ELSE MaxTargets)}
    /\ tix = 1
    /\ cpc = "check"
    /\ seen_files = {}
    /\ output_chunks = <<>>
    /\ level_files = NoLevel
    /\ outcome = "none"

IdleCtx ==
    /\ ctx_fn = "prepare_context"
    /\ target_files = <<>>
    /\ tix = 0
    /\ cpc = "idle"
    /\ seen_files = {}
    /\ output_chunks = <<>>
    /\ level_files = NoLevel
    /\ outcome = "none"

\* `if not os.path.exists(target_full_path)` for a missing target
CtxMissing ==
    /\ cpc = "check"
    /\ ~target_files[tix].exists
    /\ IF OnMissing(ctx_fn) = "raise"
       THEN /\ outcome' = "FileNotFoundError"
            /\ cpc' = "returned"
            /\ tix' = tix
       ELSE /\ outcome' = outcome
            /\ IF tix < Len(target_files)
               THEN tix' = tix + 1 /\ cpc' = "check"
               ELSE tix' = tix /\ cpc' = "end"
    /\ UNCHANGED <<ctx_fn, target_files, seen_files, output_chunks, level_files>>
    /\ UNCHANGED <<rrdVars, graphVars, extVars, roleVars, pairVars,
                 parseVars, beanVars>>

\* the target exists: its text is read and analysed
CtxAnalyse ==
    /\ cpc = "check"
    /\ target_files[tix].exists
    /\ cpc' = Levels[1]
    /\ UNCHANGED <<ctx_fn, target_files, tix, seen_files, output_chunks,
                   level_files, outcome>>
    /\ UNCHANGED <<rrdVars, graphVars, extVars, roleVars, pairVars,
                 parseVars, beanVars>>

\* one level of the body: the files it finds are appended as blocks of its
\* category
CtxLevel ==
    /\ cpc \in Range(Levels)
    /\ \E found \in Listings :
          LET foundNow == IF LevelRuns(cpc, target_files[tix]) THEN found ELSE <<>>
              r == AppendLevel(ctx_fn, CategoryOf(cpc), foundNow, 1,
                               seen_files, output_chunks)
          IN  /\ seen_files' = r.seen
              /\ output_chunks' = r.chunks
              /\ level_files' = [level |-> cpc, target |-> tix,
                                 files |-> foundNow]
    /\ IF LevelAfter(cpc) = "next"
       THEN IF ctx_fn = "prepare_context_multi" /\ tix < Len(target_files)
            THEN tix' = tix + 1 /\ cpc' = "check"
            ELSE tix' = tix /\ cpc' = "end"
       ELSE tix' = tix /\ cpc' = LevelAfter(cpc)
    /\ UNCHANGED <<ctx_fn, target_files, outcome>>
    /\ UNCHANGED <<rrdVars, graphVars, extVars, roleVars, pairVars,
                 parseVars, beanVars>>

\* `if not output_chunks: print(...); return`
CtxNothing ==
    /\ cpc = "end"
    /\ output_chunks = <<>>
    /\ outcome' = "nothing"
    /\ cpc' = "returned"
    /\ UNCHANGED <<ctx_fn, target_files, tix, seen_files, output_chunks,
                   level_files>>
    /\ UNCHANGED <<rrdVars, graphVars, extVars, roleVars, pairVars,
                 parseVars, beanVars>>

\* the output file is written, one block after the other
CtxWrite ==
    /\ cpc = "end"
    /\ output_chunks # <<>>
    /\ outcome' = "written"
    /\ cpc' = "returned"
    /\ UNCHANGED <<ctx_fn, target_files, tix, seen_files, output_chunks,
                   level_files>>
    /\ UNCHANGED <<rrdVars, graphVars, extVars, roleVars, pairVars,
                 parseVars, beanVars>>

NextCtx == CtxMissing \/ CtxAnalyse \/ CtxLevel \/ CtxNothing \/ CtxWrite

(***************************************************************************)
(* Two top-level calls of recursive_reverse_dependencies, one after the    *)
(* other, as prepare_context_multi makes them for its targets; the caller  *)
(* keeps what the first call returned.                                     *)
(***************************************************************************)
\* the files reached from x by a chain of at most k hops, each hop a file
\* of find_reverse_dependencies for the FQN derived from the file before it
RECURSIVE WithinHops(_, _)
WithinHops(x, k) ==
    IF k <= 0 THEN {}
    ELSE LET F == find_reverse_dependencies(x, args.include_tests)
         IN F \cup UNION {WithinHops(FileFqn(f), k - 1) : f \in {g \in F : HasFqn(g)}}

NoFirst == [isNone |-> TRUE, ret |-> <<>>, complete |-> TRUE]

\* every file that depends on the target of the call through any chain of
\* references: what the expansion returns when nothing cuts it short
AllDependents == WithinHops(args.target, NFiles + 1)

\* the arguments and repositories of the calls compared: depth 0 or 1, with
\* and without a cap of one file per level, files that reference the target
PairArgs ==
    [target : Targets, depth : {0, 1}, include_tests : {TRUE},
     limit : {[isNone |-> TRUE, val |-> 0], [isNone |-> FALSE, val |-> 1]}]

PairCorpora(target) ==
    {[i \in Files |-> IF i \in S THEN {target} ELSE {}] : S \in SUBSET Files}

InitPair ==
    /\ args \in PairArgs
    /\ refs \in PairCorpora(args.target)
    /\ stack = <<Frame(args.target, args.depth)>>
    /\ visited = [isNone |-> TRUE, elems |-> {}]
    /\ ret = <<>>
    /\ retRaw = <<>>
    /\ retVia = "none"
    /\ rpc = "running"
    /\ findCalls = [x \in TypeFqns |-> 0]
    /\ lastFind = [target |-> args.target, files |-> {}]
    /\ first = NoFirst

IdlePair == first = NoFirst

\* the first call has returned; the caller keeps its list and calls again
NextCall ==
    /\ rpc = "done"
    /\ first.isNone
    /\ first' = [isNone |-> FALSE, ret |-> ret,
                 complete |-> (Range(ret) = AllDependents)]
    /\ args' \in PairArgs
    /\ refs' \in PairCorpora(args'.target)
    /\ stack' = <<Frame(args'.target, args'.depth)>>
    /\ visited' = [isNone |-> TRUE, elems |-> {}]
    /\ ret' = <<>>
    /\ retRaw' = <<>>
    /\ retVia' = "none"
    /\ rpc' = "running"
    /\ findCalls' = [x \in TypeFqns |-> 0]
    /\ lastFind' = [target |-> args'.target, files |-> {}]
    /\ UNCHANGED <<graphVars, extVars, roleVars, ctxVars, parseVars, beanVars>>

NextPair == NextRRD \/ NextCall

(***************************************************************************)
(* One call regex_parse_java(file_path, code) in relation-building mode,   *)
(* statement by statement: graph.py lines 54-149 and graph_parallel.py     *)
(* lines 70-149 (collect_methods_only = False).                            *)
(***************************************************************************)
Variants == {"graph", "graph_parallel"}

\* what the call leaves alone
parseFrame == <<rrdVars, extVars, roleVars, ctxVars, pairVars, beanVars,
                runs, phase, java_files, p1, p2, p2rels, all_relations,
                built, p1Index>>

\* ALL_DEFINED_METHODS when a Pass-2 call starts: what Pass 1 collected from
\* the files it could read
IndexAfterPass1 == {UNION {DefinedBy(j) : j \in S} : S \in SUBSET Sources}

InitParse ==
    /\ variant \in Variants
    /\ file_path \in Sources
    /\ ppc = "declares"
    /\ mm = 1
    /\ relations = <<>>
    /\ ALL_DEFINED_METHODS \in
          (IF variant = "graph" THEN {{}} ELSE IndexAfterPass1)

IdleParse ==
    /\ variant = "graph"
    /\ file_path = 0
    /\ ppc = "idle"
    /\ mm = 1
    /\ relations = <<>>

\* the role is computed and the declares relation appended
\* (graph.py 61-78, graph_parallel.py 77-95)
PDeclares ==
    /\ ppc = "declares"
    /\ relations' = Append(relations,
                           Relation(FqnClass(file_path), NoTo, "declares",
                                    SrcRole(file_path)))
    /\ ppc' = IF variant = "graph" THEN "inherits" ELSE "body"
    /\ UNCHANGED <<variant, file_path, mm, ALL_DEFINED_METHODS>>
    /\ UNCHANGED parseFrame

\* graph.py 80-88: the extends and implements clauses of the tail region
PInherits ==
    /\ ppc = "inherits"
    /\ relations' = relations \o ExtendsRels(file_path) \o
                    ImplementsRels(file_path)
    /\ ppc' = "body"
    /\ UNCHANGED <<variant, file_path, mm, ALL_DEFINED_METHODS>>
    /\ UNCHANGED parseFrame

\* body_start = code.find("{", cm.end()); `continue` when there is none
\* (graph.py 90-105, graph_parallel.py 97-101)
PBody ==
    /\ ppc = "body"
    /\ ppc' = IF SrcClassBody(file_path) = <<>> THEN "end"
              ELSE IF variant = "graph" THEN "autowired" ELSE "methods"
    /\ UNCHANGED <<variant, file_path, mm, relations, ALL_DEFINED_METHODS>>
    /\ UNCHANGED parseFrame

\* graph_parallel.py 104-114: the methods loop
PMethods ==
    /\ ppc = "methods"
    /\ ALL_DEFINED_METHODS' = ALL_DEFINED_METHODS \cup DefinedBy(file_path)
    /\ relations' = relations \o HasMethodRels(file_path, 1)
    /\ ppc' = "autowired"
    /\ UNCHANGED <<variant, file_path, mm>>
    /\ UNCHANGED parseFrame

\* graph.py 108-110, graph_parallel.py 120-124
PAutowired ==
    /\ ppc = "autowired"
    /\ relations' = relations \o AutowiredRels(file_path)
    /\ ppc' = "constructors"
    /\ UNCHANGED <<variant, file_path, mm, ALL_DEFINED_METHODS>>
    /\ UNCHANGED parseFrame

\* graph.py 113-116, graph_parallel.py 127-134
PConstructors ==
    /\ ppc = "constructors"
    /\ relations' = relations \o ConstructorRels(file_path)
    /\ ppc' = IF variant = "graph" THEN "method" ELSE "calls"
    /\ mm' = 1
    /\ UNCHANGED <<variant, file_path, ALL_DEFINED_METHODS>>
    /\ UNCHANGED parseFrame

\* graph.py 119-147: one round of the methods loop: `continue` on a control
\* keyword, else has_method, the balanced body and its calls
PMethod ==
    /\ ppc = "method"
    /\ mm <= Len(SrcHeaders(file_path))
    /\ LET method_name == SrcHeaders(file_path)[mm].name
       IN  relations' =
             IF method_name \in CONTROL_KEYWORDS THEN relations
             ELSE Append(relations,
                         Relation(FqnClass(file_path),
                                  FqnMethod(file_path, method_name),
                                  "has_method", SrcRole(file_path))) \o
                  CallsOfBalanced(file_path, method_name,
                                  BalancedText(file_path, mm), 1)
    /\ mm' = mm + 1
    /\ UNCHANGED <<variant, file_path, ppc, ALL_DEFINED_METHODS>>
    /\ UNCHANGED parseFrame

\* graph_parallel.py 137-148: one round of the method-calls loop
PCalls ==
    /\ ppc = "calls"
    /\ mm <= Len(SrcHeaders(file_path))
    /\ relations' = relations \o
                    CallsOfText(file_path, SrcHeaders(file_path)[mm].name,
                                MethodText(file_path, mm), 1,
                                ALL_DEFINED_METHODS)
    /\ mm' = mm + 1
    /\ UNCHANGED <<variant, file_path, ppc, ALL_DEFINED_METHODS>>
    /\ UNCHANGED parseFrame

\* `return relations`, the file has one type declaration
PReturn ==
    /\ \/ ppc = "end"
       \/ ppc \in {"method", "calls"} /\ mm > Len(SrcHeaders(file_path))
    /\ ppc' = "returned"
    /\ UNCHANGED <<variant, file_path, mm, relations, ALL_DEFINED_METHODS>>
    /\ UNCHANGED parseFrame

NextParse ==
    \/ PDeclares
    \/ PInherits
    \/ PBody
    \/ PMethods
    \/ PAutowired
    \/ PConstructors
    \/ PMethod
    \/ PCalls
    \/ PReturn

(***************************************************************************)
(* find_bean_configurations (prepare_context_from_imports.py lines         *)
(* 138-156, dep_revdep_upto_d.py lines 126-144): one call for the class    *)
(* name T.  The text of a file is the set of the fragments it holds.       *)
(***************************************************************************)
BeanFiles == 1..NBeanFiles

Fragments == {"@Configuration", "@Bean", "new T(", "T t;", "@Qualifier('T')"}

\* `"@Configuration" in text`, `"@Bean" in text`
HasConfiguration(text) == "@Configuration" \in text
HasBean(text) == "@Bean" \in text

\* `f"new {target_class_name}" in text`
HasNew(text) == "new T(" \in text

\* `target_class_name in text`: every fragment that spells the name
NamesTarget(text) == text \cap {"new T(", "T t;", "@Qualifier('T')"} # {}

\* re.search(rf'@Qualifier\(["\']{target_class_name}["\']\)', text)
HasQualifier(text) == "@Qualifier('T')" \in text

\* the condition under which `results.append(path)` runs
BeanMatches(text) ==
    \/ HasConfiguration(text) /\ HasNew(text)
    \/ HasBean(text) /\ NamesTarget(text)
    \/ HasQualifier(text)

\* a file under repo_path: whether its name ends with ".java", and its text
\* (never read when the name does not)
BeanTexts ==
    {[java |-> TRUE, text |-> t] : t \in SUBSET Fragments} \cup
    {[java |-> FALSE, text |-> {}]}

\* the file os.walk yields next
NextWalked == Cardinality(walked) + 1

InitBean ==
    /\ target_class_name = "T"
    /\ texts \in [BeanFiles -> BeanTexts]
    /\ walked = {}
    /\ bean_results = <<>>
    /\ bpc = "walking"

IdleBean ==
    /\ target_class_name = "T"
    /\ texts = [f \in BeanFiles |-> [java |-> FALSE, text |-> {}]]
    /\ walked = {}
    /\ bean_results = <<>>
    /\ bpc = "idle"

beanFrame == <<rrdVars, graphVars, extVars, roleVars, ctxVars, pairVars,
               parseVars>>

\* `if not f.endswith(".java"): continue`
BeanSkipName ==
    /\ bpc = "walking" /\ NextWalked \in BeanFiles
    /\ ~texts[NextWalked].java
    /\ walked' = walked \cup {NextWalked}
    /\ UNCHANGED <<target_class_name, texts, bean_results, bpc>>
    /\ UNCHANGED beanFrame

\* open or read raises: `except Exception: continue`
BeanReadError ==
    /\ bpc = "walking" /\ NextWalked \in BeanFiles
    /\ texts[NextWalked].java
    /\ walked' = walked \cup {NextWalked}
    /\ UNCHANGED <<target_class_name, texts, bean_results, bpc>>
    /\ UNCHANGED beanFrame

\* the text is read and the condition holds: results.append(path)
BeanAppend ==
    /\ bpc = "walking" /\ NextWalked \in BeanFiles
    /\ texts[NextWalked].java
    /\ BeanMatches(texts[NextWalked].text)
    /\ walked' = walked \cup {NextWalked}
    /\ bean_results' = Append(bean_results, NextWalked)
    /\ UNCHANGED <<target_class_name, texts, bpc>>
    /\ UNCHANGED beanFrame

\* the text is read and the condition does not hold
BeanPass ==
    /\ bpc = "walking" /\ NextWalked \in BeanFiles
    /\ texts[NextWalked].java
    /\ ~BeanMatches(texts[NextWalked].text)
    /\ walked' = walked \cup {NextWalked}
    /\ UNCHANGED <<target_class_name, texts, bean_results, bpc>>
    /\ UNCHANGED beanFrame

\* `return results`
BeanReturn ==
    /\ bpc = "walking" /\ NextWalked \notin BeanFiles
    /\ bpc' = "returned"
    /\ UNCHANGED <<target_class_name, texts, walked, bean_results>>
    /\ UNCHANGED beanFrame

NextBean ==
    \/ BeanSkipName
    \/ BeanReadError
    \/ BeanAppend
    \/ BeanPass
    \/ BeanReturn

vars == <<rrdVars, graphVars, auxVars>>

\* one top-level recursive_reverse_dependencies call
Init ==
    InitRRD /\ InitGraph /\ IdleExtract /\ IdleRole /\ IdleCtx /\ IdlePair
    /\ IdleParse /\ IdleBean

Next == NextRRD

Spec == Init /\ [][Next]_vars

\* build_repo_graph calls in one process
GraphInit ==
    InitGraph /\ IdleRRD /\ IdleExtract /\ IdleRole /\ IdleCtx /\ IdlePair
    /\ IdleParse /\ IdleBean

GraphNext == NextGraph

SpecGraph == GraphInit /\ [][GraphNext]_vars

\* The recursion is single-threaded and every step of it completes: the
\* call keeps taking steps while one is possible.
LiveSpec == Init /\ [][Next]_vars /\ WF_vars(Next)

\* one call of a balanced-block extractor
ExtractInit ==
    InitExtract /\ IdleRRD /\ InitGraph /\ IdleRole /\ IdleCtx /\ IdlePair
    /\ IdleParse /\ IdleBean

ExtractNext == NextExtract

SpecExtract == ExtractInit /\ [][ExtractNext]_vars

\* one type declaration met by regex_parse_java
RoleInit ==
    InitRole /\ IdleRRD /\ InitGraph /\ IdleExtract /\ IdleCtx /\ IdlePair
    /\ IdleParse /\ IdleBean

RoleNext == NextRole

SpecRole == RoleInit /\ [][RoleNext]_vars

\* one call of a context builder
CtxInit ==
    InitCtx /\ IdleRRD /\ InitGraph /\ IdleExtract /\ IdleRole /\ IdlePair
    /\ IdleParse /\ IdleBean

CtxNext == NextCtx

SpecCtx == CtxInit /\ [][CtxNext]_vars

\* two calls of recursive_reverse_dependencies in a row
PairInit ==
    InitPair /\ InitGraph /\ IdleExtract /\ IdleRole /\ IdleCtx
    /\ IdleParse /\ IdleBean

PairNext == NextPair

SpecPair == PairInit /\ [][PairNext]_vars

\* one call of find_bean_configurations
BeanInit ==
    InitBean /\ IdleRRD /\ InitGraph /\ IdleExtract /\ IdleRole /\ IdleCtx
    /\ IdlePair /\ IdleParse

BeanNext == NextBean

SpecBean == BeanInit /\ [][BeanNext]_vars

\* the graph variables outside a build_repo_graph call, whatever the index holds
GraphAtRest ==
    /\ runs = 0
    /\ phase = "idle"
    /\ java_files = {}
    /\ p1 = [k \in Sources |-> "pending"]
    /\ p2 = [k \in Sources |-> "pending"]
    /\ p2rels = [k \in Sources |-> <<>>]
    /\ all_relations = <<>>
    /\ built = {}
    /\ p1Index = {}

\* one call of regex_parse_java
ParseInit ==
    InitParse /\ GraphAtRest /\ IdleRRD /\ IdleExtract /\ IdleRole /\ IdleCtx
    /\ IdlePair /\ IdleBean

ParseNext == NextParse

SpecParse == ParseInit /\ [][ParseNext]_vars

(***************************************************************************)
(* Properties of recursive_reverse_dependencies                            *)
(***************************************************************************)
Entering == rpc = "running" /\ Top.pc = "enter"

\* the innermost call has returned [] and its caller's results are as before
ReturnedEmpty ==
    /\ ret' = <<>>
    /\ Len(stack') = Len(stack) - 1
    /\ Len(stack) > 1 =>
          stack'[Len(stack) - 1].results = stack[Len(stack) - 1].results

\* a corpus in which two files reference each other's type
MutualReference ==
    \E i, j \in TypedFiles :
        i # j /\ FileFqn(j) \in refs[i] /\ FileFqn(i) \in refs[j]

\* a corpus in which a file references its own type
SelfReference == \E i \in TypedFiles : FileFqn(i) \in refs[i]

\* the call stack is never deeper than the depth asked for
StackBounded == Len(stack) <= Max(args.depth, 0) + 1

\* A measure of the work recursive_reverse_dependencies has left: the FQNs
\* not yet visited, each worth a scan of NFiles files, plus for every active
\* call one unit and two per iteration its loop still has to make.
RECURSIVE FrameWork(_)
FrameWork(k) ==
    IF k = 0 THEN 0
    ELSE FrameWork(k - 1) + 1 +
         (IF stack[k].pc = "loop"
          THEN 2 * (Len(stack[k].files) + 1 - stack[k].i) ELSE 0)

Rank ==
    (2 * NFiles + 1) * Cardinality(TypeFqns \ visited.elems) + FrameWork(Len(stack))

\* the top-level call eventually returns
EventuallyDone == <>(rpc = "done")

\* the call can take a step: it is entering, or its loop is over, or the
\* next file needs no call or the call it needs fits the stack followed
CanStep ==
    /\ rpc = "running"
    /\ \/ Top.pc = "enter"
       \/ Top.i > Len(Top.files)
       \/ ~HasFqn(Top.files[Top.i])
       \/ Len(stack) < StackCap

\* CanStep is the enabling condition of Next
CanStepIsEnabled == CanStep <=> ENABLED Next

\* C1: recursive_reverse_dependencies terminates for every corpus, every
\* depth and every limit, mutual and self references included: until the
\* top-level call has returned a step is always possible, and every step
\* strictly lowers a measure that is a natural number.
C1_Terminates ==
    /\ [](rpc = "done" \/ CanStep)
    /\ [](Rank \in Nat)
    /\ [][Rank' < Rank]_vars

C1_Witness ==
    /\ rpc = "done"
    /\ MutualReference /\ SelfReference
    /\ retVia = "loop"
    /\ Cardinality(visited.elems) >= 3

\* C2: the list a call returns, at every level of the recursion and at the
\* top, holds each file path at most once.
C2_NoDuplicates == NoDup(ret)

C2_Witness ==
    /\ rpc = "done"
    /\ retVia = "loop"
    /\ ~NoDup(retRaw)
    /\ Range(ret) = Range(retRaw)

\* C3: a call entered with depth <= 0 returns [] whatever its target and
\* the visited set are; it scans no file (no find_reverse_dependencies
\* call) and leaves the visited set as it was.
C3_DepthZeroEmpty ==
    [][(Entering /\ Top.depth <= 0) =>
          /\ ReturnedEmpty
          /\ retVia' = "depth"
          /\ visited' = visited
          /\ findCalls' = findCalls
          /\ lastFind' = lastFind]_vars

C3_Witness ==
    /\ retVia = "depth"
    /\ rpc = "running"
    /\ Cardinality(visited.elems) >= 2
    /\ \E x \in TypeFqns : x \notin visited.elems /\ findCalls[x] = 0

\* C4: a call entered with depth > 0 for a target already in the visited
\* set returns [] without calling find_reverse_dependencies, and so
\* find_reverse_dependencies runs at most once per FQN in one top-level call.
C4_CycleGuard ==
    [][/\ (Entering /\ Top.depth > 0 /\ ~visited.isNone
              /\ Top.target \in visited.elems) =>
            /\ ReturnedEmpty
            /\ visited' = visited
            /\ findCalls' = findCalls
            /\ lastFind' = lastFind
       /\ \A x \in TypeFqns : findCalls'[x] <= 1]_vars

C4_Witness ==
    /\ retVia = "visited"
    /\ Cardinality({x \in TypeFqns : findCalls[x] = 1}) >= 2

NoLimit == args.limit.isNone

\* C5: with no per-level limit the result holds every file that depends on
\* the target within at most depth hops, whatever the order
\* find_reverse_dependencies lists the files in.
C5_AllWithinDepth ==
    (rpc = "done" /\ NoLimit) =>
        WithinHops(args.target, args.depth) \subseteq Range(ret)

\* the files named *test.java, in any letter case
TestFiles == {i \in Files : IsTestName(FileName(i))}

\* C6: without include_tests no file named *test.java (any letter case) is
\* in what find_reverse_dependencies returns, nor in any list the recursion
\* holds or returns; with include_tests such a file is returned by
\* find_reverse_dependencies whenever a signal matches it.
C6_TestFiles ==
    /\ ~args.include_tests =>
          \A i \in TestFiles :
              /\ i \notin lastFind.files
              /\ i \notin Range(ret)
              /\ \A k \in 1..Len(stack) :
                    i \notin Range(stack[k].files) \cup Range(stack[k].results)
    /\ (args.include_tests /\ findCalls[lastFind.target] > 0) =>
          \A i \in TestFiles :
              MatchesSignal(i, lastFind.target) => i \in lastFind.files

C6_Witness ==
    /\ ~args.include_tests
    /\ rpc = "done"
    /\ ret # <<>>
    /\ \E i \in TestFiles, x \in visited.elems :
          MatchesSignal(i, x) /\ i \notin Range(ret)

C6_WitnessIncluded ==
    /\ args.include_tests
    /\ rpc = "done"
    /\ \E i \in Range(ret) : i \in TestFiles

(***************************************************************************)
(* Properties of build_repo_graph                                          *)
(***************************************************************************)
\* the index Pass 1 builds from exactly the files of a corpus
IndexOf(files) == UNION {DefinedBy(k) : k \in files}

\* relation r was extracted from file k
OwnedBy(r, k) ==
    \/ r.from = FqnClass(k)
    \/ \E h \in 1..Len(SrcHeaders(k)) : r.from = FqnMethod(k, SrcHeaders(k)[h].name)

CallsIn(rels) == {r \in Range(rels) : r.type = "calls"}

\* C7: every calls relation build_repo_graph emits points to a token of the
\* MethodIndex built from exactly the files of the corpus it scans, also
\* for a second corpus scanned in the same process.
C7_CallsWithinCorpusIndex ==
    \A r \in CallsIn(all_relations) : r.to \in IndexOf(java_files)

\* C8: no Pass-2 task of any file starts before the Pass-1 collection of
\* every file of the corpus has completed (with its names or with an error).
C8_PassesSequential ==
    (\E k \in java_files : p2[k] # "pending") =>
        /\ phase \in {"pass2", "done"}
        /\ \A j \in java_files : p1[j] \in {"collected", "failed"}

C8_Witness ==
    /\ phase = "pass2"
    /\ \E k, j, i \in java_files :
          /\ p2[k] = "finished" /\ p2[j] = "pending"
          /\ p1[j] = "failed" /\ p1[k] = "collected"
          /\ p2[i] = "scanned"

\* C9: the MethodIndex is read-only once Pass 1 has completed: during and
\* after Pass 2 ALL_DEFINED_METHODS has the value it had when Pass 1 ended.
C9_IndexReadOnly ==
    phase \in {"pass2", "done"} => ALL_DEFINED_METHODS = p1Index

\* C10 as stated: a file whose read or parse failed in Pass 1 or in Pass 2
\* contributes no relations to what build_repo_graph returns.
C10_FailedFileContributesNothing ==
    phase = "done" =>
        \A k \in java_files :
            (p1[k] = "failed" \/ p2[k] = "reported") =>
                \A r \in Range(all_relations) : ~OwnedBy(r, k)

\* C10, amended: a failing file never aborts the call nor the tasks of the
\* other files; when build_repo_graph returns, every file has been taken
\* through both passes, a file whose Pass-2 task failed contributes no
\* relations, and the relations of every file whose Pass-2 task succeeded
\* are returned (also when its Pass-1 task had failed).
C10_FailureIsolation ==
    /\ phase # "aborted"
    /\ phase = "done" =>
          \A k \in java_files :
              /\ p1[k] \in {"collected", "failed"}
              /\ p2[k] \in {"merged", "reported"}
              /\ p2[k] = "reported" =>
                    \A r \in Range(all_relations) : ~OwnedBy(r, k)
              /\ p2[k] = "merged" =>
                    /\ Relation(FqnClass(k), NoTo, "declares", SrcRole(k))
                          \in Range(all_relations)
                    /\ Range(p2rels[k]) \subseteq Range(all_relations)

C10_Witness ==
    /\ phase = "done"
    /\ \E k, j, i \in java_files :
          /\ p2[k] = "reported"
          /\ p1[j] = "failed" /\ p2[j] = "merged"
          /\ p1[i] = "collected" /\ p2[i] = "merged"
          /\ CallsIn(p2rels[i]) # {}

(***************************************************************************)
(* Properties of the balanced-block extractors                             *)
(***************************************************************************)
\* '{' minus '}' among the first n tokens of buf
RECURSIVE Net(_, _)
Net(buf, n) ==
    IF n = 0 THEN 0
    ELSE Net(buf, n - 1) + (IF IsOpen(buf[n]) THEN 1 ELSE 0)
                         - (IF IsClose(buf[n]) THEN 1 ELSE 0)

\* the braces of buf are balanced: none closes what was not opened and
\* none stays open
Balanced(buf) ==
    /\ \A n \in 0..Len(buf) : Net(buf, n) >= 0
    /\ Net(buf, Len(buf)) = 0

Header == FirstMatch(code, xfn)

\* the positions of the opening braces from the header on (the brace that
\* ends a method header is at the header itself)
OpensAfterHeader ==
    {p \in Header..Len(code) :
        IsOpen(code[p]) /\ (p > Header \/ xfn = "extract_full_method")}

\* the first brace opened after the header
BodyOpen == CHOOSE p \in OpensAfterHeader : \A q \in OpensAfterHeader : p <= q

\* the positions of the '}' that bring the nesting back to where it was
\* before position o
ClosersOf(o) ==
    {j \in (o + 1)..Len(code) :
        IsClose(code[j]) /\ Net(code, j) = Net(code, o - 1)}

\* the '}' that closes the brace opened at o
ClosingOf(o) == CHOOSE j \in ClosersOf(o) : \A q \in ClosersOf(o) : j <= q

\* C11: for a buffer with balanced braces that holds a declaration header,
\* the block returned has as many '{' as '}', starts at the header match and
\* ends exactly at the '}' that closes the first '{' opened after the header.
C11_BalancedBlock ==
    (/\ xpc = "returned"
     /\ Balanced(code)
     /\ Header # 0
     /\ OpensAfterHeader # {}) =>
        /\ ~xspan.isNone
        /\ Net(xret, Len(xret)) = 0
        /\ xspan.lo = Header
        /\ xspan.hi = ClosingOf(BodyOpen)

\* the positions at which the extractor's depth counter is back at zero on
\* a '}' (extract_full_method starts its count inside the method body)
ZeroAt ==
    {j \in (Header + 1)..Len(code) :
        /\ IsClose(code[j])
        /\ Net(code, j) - Net(code, Header) =
               (IF xfn = "extract_full_method" THEN 0 - 1 ELSE 0)}

\* C12: without a header, without an opening brace after the header, or
\* when the depth never returns to zero, extract_full_type and
\* extract_full_class return the whole buffer and extract_full_method
\* returns the text from the header to the end of the buffer.
C12_Fallback ==
    xpc = "returned" =>
        /\ (xfn # "extract_full_method" /\ (Header = 0 \/ ZeroAt = {})) =>
              /\ xret = code
              /\ xspan = Span(1, Len(code))
        /\ (xfn = "extract_full_method" /\ Header # 0 /\ ZeroAt = {}) =>
              /\ xret = SubSeq(code, Header, Len(code))
              /\ xret # <<>>
              /\ xspan = Span(Header, Len(code))

C12_Witness ==
    /\ xpc = "returned"
    /\ xfn = "extract_full_class"
    /\ Header > 1
    /\ OpensAfterHeader # {}
    /\ \E j \in (Header + 1)..Len(code) : IsClose(code[j])
    /\ ZeroAt = {}
    /\ xret = code

C12_WitnessMethod ==
    /\ xpc = "returned"
    /\ xfn = "extract_full_method"
    /\ Header > 1
    /\ ZeroAt = {}
    /\ Len(xret) >= 3
    /\ Len(xret) < Len(code)


(***************************************************************************)
(* Properties of the role classification                                   *)
(***************************************************************************)
\* the annotations that precede the type keyword within the look-back
\* window, those standing directly on the declaration included
NearAnnos == {i \in 1..Len(annos_text) : annos_text[i].at >= cm_start - LookBack}

\* annotation i names a stereotype
Recognized(i) ==
    \E j \in 1..Len(SPRING_ANNOTATIONS) :
        Contains(LowerStr(annos_text[i].name), LowerStr(SPRING_ANNOTATIONS[j].k))

\* the role the first recognized annotation in text order stands for,
\* "class" without one
FirstRecognizedRole ==
    IF \E i \in NearAnnos : Recognized(i)
    THEN LET f == CHOOSE i \in NearAnnos :
                    Recognized(i) /\ \A q \in NearAnnos : Recognized(q) => i <= q
         IN  (CHOOSE e \in Range(SPRING_ANNOTATIONS) :
                  Contains(LowerStr(annos_text[f].name), LowerStr(e.k))).v
    ELSE "class"

\* C13: the declares relation of a type carries the role of the first
\* recognized stereotype annotation that precedes the declaration within
\* the 400-character look-back (an annotation placed directly on the
\* declaration included), and "class" when there is none.
C13_StereotypeRole ==
    (rolepc = "declared" /\ ~collect_methods_only) =>
        /\ Len(declared) = 1
        /\ declared[1].type = "declares"
        /\ declared[1].role = FirstRecognizedRole


(***************************************************************************)
(* Properties of the MethodIndex and of the relations returned             *)
(***************************************************************************)
\* the fully-qualified forms regex_parse_java puts into the index
FqnForms ==
    UNION {{FqnMethod(k, SrcHeaders(k)[h].name) : h \in 1..Len(SrcHeaders(k))} :
           k \in Sources}

\* the method simple names recorded in an index
SimpleNames(index) == index \ FqnForms

\* this call is the first of the process and its Pass 1 has read every file
CleanPass1 ==
    /\ phase \in {"pass2", "done"}
    /\ runs = 1
    /\ \A k \in java_files : p1[k] = "collected"

\* C14: after Pass 1 over a corpus, the method simple names recorded in the
\* MethodIndex are exactly the method names the files of the corpus declare.
C14_IndexExact ==
    CleanPass1 =>
        SimpleNames(p1Index) = UNION {SrcMethods(k) : k \in java_files}

\* C15: with A.java (package p, type A, method foo calling bar) and B.java
\* (package p, method bar) both in the corpus and both processed in both
\* passes, the relations returned hold calls p.A.foo -> bar, in whatever
\* order the files were taken.
C15_CallsAcrossFiles ==
    (/\ phase = "done"
     /\ {1, 2} \subseteq java_files
     /\ p1[1] = "collected" /\ p1[2] = "collected"
     /\ p2[1] = "merged" /\ p2[2] = "merged") =>
        \E r \in CallsIn(all_relations) : r.from = "p.A.foo" /\ r.to = "bar"

\* B.java was merged before A.java
C15_Witness ==
    /\ phase = "done"
    /\ runs = 1
    /\ java_files = {1, 2}
    /\ p1[1] = "collected" /\ p1[2] = "collected"
    /\ p2[1] = "merged" /\ p2[2] = "merged"
    /\ all_relations[1].from = "p.B"
    /\ \E r \in CallsIn(all_relations) : r.from = "p.A.foo" /\ r.to = "bar"

\* A.java was merged before B.java
C15_WitnessOtherOrder ==
    /\ phase = "done"
    /\ runs = 1
    /\ java_files = {1, 2}
    /\ p1[1] = "collected" /\ p1[2] = "collected"
    /\ p2[1] = "merged" /\ p2[2] = "merged"
    /\ all_relations[1].from = "p.A"
    /\ \E r \in CallsIn(all_relations) : r.from = "p.A.foo" /\ r.to = "bar"

Merged == {k \in java_files : p2[k] = "merged"}

RECURSIVE SumLen(_)
SumLen(S) ==
    IF S = {} THEN 0
    ELSE LET k == CHOOSE x \in S : TRUE
         IN  Len(p2rels[k]) + SumLen(S \ {k})

\* C20: what build_repo_graph returns is the union of the per-file relation
\* lists: it holds every relation of every successfully parsed file and no
\* other, and its content is the same whatever the order in which the
\* per-file tasks ran and completed: the relations of each file are the
\* ones its extraction yields against the index Pass 1 left (with the
\* file's own names), whatever the other Pass-2 tasks have done meanwhile.
C20_UnionOfFiles ==
    phase = "done" =>
        /\ \A k \in Merged : Range(p2rels[k]) \subseteq Range(all_relations)
        /\ \A r \in Range(all_relations) : \E k \in Merged : r \in Range(p2rels[k])
        /\ Len(all_relations) = SumLen(Merged)
        /\ \A k \in Merged :
              p2rels[k] = DeclRels(k) \o CallRels(k, 1, p1Index \cup DefinedBy(k))


(***************************************************************************)
(* Properties of find_reverse_dependencies                                 *)
(***************************************************************************)
\* file i is a .java file the scan does not skip
NotExcluded(i) ==
    /\ IsJavaFile(FileName(i))
    /\ args.include_tests \/ i \notin TestFiles

\* some signal matches the text of file i for the target: its exact import,
\* or one of the simple-name signals
SomeSignal(i, target) ==
    \E t \in refs[i] :
        IF SignalOf(i) = "import" THEN t = target
        ELSE BaseName(t) = BaseName(target)

\* C16: find_reverse_dependencies is signal-OR: a non-excluded .java file
\* is in the result iff at least one signal matches its text; a file with
\* the exact import of the target is in it, and so is a file of the target's
\* package with an implements clause naming it and no import.
C16_SignalOr ==
    findCalls[lastFind.target] > 0 =>
        /\ \A i \in Files :
              i \in lastFind.files <=>
                  (NotExcluded(i) /\ SomeSignal(i, lastFind.target))
        /\ \A i \in Files :
              (/\ NotExcluded(i)
               /\ SignalOf(i) = "import"
               /\ lastFind.target \in refs[i]) => i \in lastFind.files
        /\ \A i \in Files :
              (/\ NotExcluded(i)
               /\ SignalOf(i) = "implements"
               /\ FilePkg(i) = PackageName(lastFind.target)
               /\ lastFind.target \in refs[i]) => i \in lastFind.files

\* one scan returns a file for its import and a file for its same-package
\* implements clause, and leaves out a file without any signal
C16_Witness ==
    /\ findCalls[lastFind.target] > 0
    /\ \E i, j, n \in Files :
          /\ SignalOf(i) = "import" /\ lastFind.target \in refs[i]
          /\ i \in lastFind.files
          /\ SignalOf(j) = "implements" /\ lastFind.target \in refs[j]
          /\ FilePkg(j) = PackageName(lastFind.target)
          /\ j \in lastFind.files
          /\ NotExcluded(n) /\ ~SomeSignal(n, lastFind.target)
          /\ n \notin lastFind.files


(***************************************************************************)
(* Properties of the context builders                                      *)
(***************************************************************************)
\* C17: when a requested target file does not exist under the repository
\* root, the context builder reports a distinct error to its caller instead
\* of completing normally.
C17_MissingTargetFails ==
    (/\ cpc = "returned"
     /\ \E n \in 1..Len(target_files) : ~target_files[n].exists) =>
        outcome = "FileNotFoundError"

\* the place of a category in the order IMPORT, EXTENDS / IMPLEMENTS,
\* REVERSE DEPENDENCY, BEAN / CONFIGURATION
CategoryRank(category) ==
    CASE category = "IMPORT" -> 1
      [] category = "EXTENDS / IMPLEMENTS" -> 2
      [] category = "REVERSE DEPENDENCY" -> 3
      [] category = "BEAN / CONFIGURATION" -> 4

\* C19: among the blocks of the bundle that belong to one target file, every
\* IMPORT block precedes every EXTENDS / IMPLEMENTS block, these precede
\* every REVERSE DEPENDENCY block, and these every BEAN / CONFIGURATION
\* block.
C19_CategoryOrder ==
    \A i, j \in 1..Len(output_chunks) :
        (i < j /\ output_chunks[i].target = output_chunks[j].target) =>
            CategoryRank(output_chunks[i].category)
                <= CategoryRank(output_chunks[j].category)

\* a bundle of prepare_context with a block of each of the four categories
C19_Witness ==
    /\ outcome = "written"
    /\ ctx_fn = "prepare_context"
    /\ \A c \in 1..4 :
          \E i \in 1..Len(output_chunks) :
              CategoryRank(output_chunks[i].category) = c

\* a bundle of prepare_context_multi with three categories for one target
\* and the blocks of a second target behind them
C19_WitnessMulti ==
    /\ outcome = "written"
    /\ ctx_fn = "prepare_context_multi"
    /\ Len(output_chunks) = 3
    /\ output_chunks[1].target = 1 /\ output_chunks[2].target = 1
    /\ output_chunks[1].category = "EXTENDS / IMPLEMENTS"
    /\ output_chunks[2].category = "BEAN / CONFIGURATION"
    /\ output_chunks[3].target = 2
    /\ output_chunks[3].category = "IMPORT"


(***************************************************************************)
(* What a caller of recursive_reverse_dependencies can tell                *)
(***************************************************************************)
\* C18: a result cut short by the per-level cap or by depth exhaustion can
\* be told from a complete result by what the call returns: two calls that
\* return the same file list are both complete or both cut short.
C18_TruncationVisible ==
    (rpc = "done" /\ ~first.isNone /\ first.ret = ret) =>
        (first.complete <=> Range(ret) = AllDependents)


(***************************************************************************)
(* Properties of recursive_reverse_dependencies: the per-level limit and   *)
(* the soundness of the result                                             *)
(***************************************************************************)
\* L + L^2 + ... + L^d
RECURSIVE GeoSum(_, _)
GeoSum(L, d) == IF d <= 0 THEN 0 ELSE L * (1 + GeoSum(L, d - 1))

PositiveLimit == ~args.limit.isNone /\ args.limit.val > 0

\* the calls that are past their scan
Scanned == {k \in 1..Len(stack) : stack[k].pc = "loop"}

C25_WitnessBound ==
    /\ PositiveLimit /\ rpc = "done"
    /\ args.depth >= 2
    /\ Len(ret) = GeoSum(args.limit.val, args.depth)

\* the files of R reached from x by a chain of at most k hops through files
\* of R: each hop is a file find_reverse_dependencies returns for the FQN
\* derived from the file before it (for x itself at the first hop)
RECURSIVE ChainsIn(_, _, _)
ChainsIn(x, k, R) ==
    IF k <= 0 THEN {}
    ELSE LET F == find_reverse_dependencies(x, args.include_tests) \cap R
         IN  F \cup UNION {ChainsIn(FileFqn(f), k - 1, R) :
                             f \in {g \in F : HasFqn(g)}}

\* C27: every file of the result was returned by find_reverse_dependencies
\* for the target or for the FQN derived from another file of the result,
\* along a chain of at most depth hops.
C27_ResultSound ==
    rpc = "done" =>
        Range(ret) \subseteq ChainsIn(args.target, args.depth, Range(ret))

\* a call of depth 2 or more has returned a file that does not reference the
\* target itself while a file one hop beyond the depth was left out
C27_Witness ==
    /\ rpc = "done" /\ args.depth >= 2
    /\ Range(ret) \ find_reverse_dependencies(args.target, args.include_tests) # {}
    /\ WithinHops(args.target, args.depth + 1) \ WithinHops(args.target, args.depth) # {}

(***************************************************************************)
(* Properties of the Pass-2 schedule of build_repo_graph                   *)
(***************************************************************************)
\* C29: the calls relations a Pass-2 worker is about to append are the
\* same whether or not the scan of another worker, which has not started
\* yet, runs before it: what build_repo_graph returns does not depend on
\* which worker ran first.
C29_ScheduleIndependent ==
    \A k \in java_files : \A j \in java_files :
        (phase = "pass2" /\ k # j /\ p2[k] = "scanned" /\ p2[j] = "pending") =>
            CallRels(k, 1, ALL_DEFINED_METHODS) =
               CallRels(k, 1, ALL_DEFINED_METHODS \cup DefinedBy(j))

(***************************************************************************)
(* Properties of one regex_parse_java call                                 *)
(***************************************************************************)
RelationTypes == {"declares", "extends", "implements", "autowired",
                  "has_constructor", "has_method", "calls"}

StereotypeRoles == {"controller", "service", "repository", "component",
                    "configuration", "class"}

\* C21: every relation regex_parse_java has appended carries one of the
\* seven relation types and a role from the closed set controller, service,
\* repository, component, configuration, class.
C21_ClosedTypesAndRoles ==
    \A j \in 1..Len(relations) :
        /\ relations[j].type \in RelationTypes
        /\ relations[j].role \in StereotypeRoles

\* the extends and implements relations among those appended
Inheritance ==
    SelectSeq(relations, LAMBDA r : r.type \in {"extends", "implements"})

\* C22: when a relation-building call has returned, the type declaration
\* has one extends/implements relation per supertype or interface its
\* header lists, from the FQN of the declaring type to the trimmed name.
C22_InheritanceRelations ==
    ppc = "returned" =>
        /\ Len(Inheritance) = Cardinality(SrcSupertypes(file_path))
        /\ {Inheritance[j].to : j \in 1..Len(Inheritance)} =
              SrcSupertypes(file_path)
        /\ \A j \in 1..Len(Inheritance) :
              Inheritance[j].from = FqnClass(file_path)

\* the text CALL_RE scans for the header at position h
ScannedText(h) ==
    IF variant = "graph" THEN BalancedText(file_path, h)
    ELSE MethodText(file_path, h)

\* the headers of the file the call was made for
HeaderNames == [h \in 1..Len(SrcHeaders(file_path)) |-> SrcHeaders(file_path)[h].name]

\* C24: no calls relation is a self-loop or a keyword edge: its `to` is
\* not the simple name of the method its `from` names, and is not a
\* control keyword.
C24_NoSelfLoopNoKeyword ==
    \A j \in 1..Len(relations) :
        relations[j].type = "calls" =>
            /\ relations[j].to \notin CONTROL_KEYWORDS
            /\ \A h \in 1..Len(HeaderNames) :
                  relations[j].from = FqnMethod(file_path, HeaderNames[h])
                     => relations[j].to # HeaderNames[h]

\* a Pass-2 call of graph_parallel.py has returned calls relations of a
\* method whose scanned text holds its own name and a control keyword, both
\* while the index knows the name
C24_Witness ==
    /\ ppc = "returned" /\ variant = "graph_parallel"
    /\ \E h \in 1..Len(HeaderNames) :
          /\ HeaderNames[h] \in Range(ScannedText(h))
          /\ HeaderNames[h] \in ALL_DEFINED_METHODS
          /\ Range(ScannedText(h)) \cap CONTROL_KEYWORDS # {}
          /\ \E j \in 1..Len(relations) :
                /\ relations[j].type = "calls"
                /\ relations[j].from = FqnMethod(file_path, HeaderNames[h])

\* the same for graph.py
C24_WitnessGraph ==
    /\ ppc = "returned" /\ variant = "graph"
    /\ \E h \in 1..Len(HeaderNames) :
          /\ HeaderNames[h] \in Range(ScannedText(h))
          /\ Range(ScannedText(h)) \cap CONTROL_KEYWORDS # {}
          /\ \E j \in 1..Len(relations) :
                /\ relations[j].type = "calls"
                /\ relations[j].from = FqnMethod(file_path, HeaderNames[h])

\* C26: a calls relation from method M to token t is appended only if t
\* is a call-site token inside the brace-balanced body of M, never because
\* t stands in the header or body of a method that follows M.
C26_CallsFromOwnBody ==
    \A j \in 1..Len(relations) :
        relations[j].type = "calls" =>
            \E h \in 1..Len(HeaderNames) :
                /\ relations[j].from = FqnMethod(file_path, HeaderNames[h])
                /\ relations[j].to \in Range(BalancedText(file_path, h))

\* the `to` of the has_method relations among those appended
HasMethodTargets ==
    {relations[j].to : j \in {i \in 1..Len(relations) :
                                 relations[i].type = "has_method"}}

\* C28: when a relation-building call has returned, every calls relation
\* starts at a method FQN for which the same call appended a has_method
\* relation; none starts at a header rejected because its name is a
\* control keyword.
C28_CallsFromDeclaredMethods ==
    ppc = "returned" =>
        \A j \in 1..Len(relations) :
            relations[j].type = "calls" =>
                relations[j].from \in HasMethodTargets

(***************************************************************************)
(* Properties of find_bean_configurations                                  *)
(***************************************************************************)
\* the text declares a factory role
FactoryRole(text) == HasConfiguration(text) \/ HasBean(text)

\* the text constructs the target, or is annotated as producing or
\* qualifying it
ConstructsOrQualifies(text) ==
    \/ HasNew(text)
    \/ HasQualifier(text)
    \/ HasBean(text) /\ NamesTarget(text)

\* C23: a file is in the result of find_bean_configurations only if its
\* text both declares a factory role (@Configuration or @Bean) and
\* constructs or qualifies the target; a file without a factory-role marker
\* is never returned.
C23_BeanNeedsFactoryRole ==
    \A j \in 1..Len(bean_results) :
        /\ FactoryRole(texts[bean_results[j]].text)
        /\ ConstructsOrQualifies(texts[bean_results[j]].text)

(***************************************************************************)
(* Properties of the seen-file set of prepare_context_multi                *)
(***************************************************************************)
\* no file is in two blocks of the bundle, and the seen-file set is the set
\* of the files emitted
EmittedOnce ==
    ctx_fn = "prepare_context_multi" =>
        /\ \A a \in 1..Len(output_chunks) : \A b \in 1..Len(output_chunks) :
              output_chunks[a].file = output_chunks[b].file => a = b
        /\ seen_files = {output_chunks[a].file : a \in 1..Len(output_chunks)}

\* C30: prepare_context_multi emits each source file in at most one block,
\* across all targets and all four categories, and its seen-file set only
\* grows during the call.
C30_EachFileOnce ==
    /\ []EmittedOnce
    /\ [][seen_files \subseteq seen_files']_vars

\* a level of prepare_context_multi has just looped over a list that names
\* a file twice and a file already emitted for an earlier target or in an
\* earlier category
C30_Witness ==
    /\ ctx_fn = "prepare_context_multi"
    /\ level_files.level # "none"
    /\ ~NoDup(level_files.files)
    /\ \E n \in 1..Len(level_files.files) : \E a \in 1..Len(output_chunks) :
          /\ output_chunks[a].file = level_files.files[n]
          /\ \/ output_chunks[a].target < level_files.target
             \/ output_chunks[a].category # CategoryOf(level_files.level)

====
